---- MODULE Spec2Model ----
(***************************************************************************)
(* Provider lifecycle, sync scheduling, task tracking and event publishing *)
(* of the Music Assistant server (server.py, controllers/music.py), as a   *)
(* state machine under the single-threaded cooperative asyncio scheduler.  *)
(*                                                                         *)
(* A coroutine call is a record of `calls` with a program counter.  A call *)
(* whose pc is in RunningPcs is executing between two suspension points:   *)
(* nothing else runs until it suspends (Idle).  A call whose pc is in      *)
(* "U_await", "U_close", "L_setup", "S_close" is suspended at an await.    *)
(* Local variables of a call are cleared when it ends.                     *)
(***************************************************************************)
EXTENDS Integers, Sequences, FiniteSets, TLC

\* ---------------------------------------------------------------- bounds
MaxCalls == 3
MaxTasks == 2
MaxObjs == 2
MaxHandovers == 2

\* ------------------------------------------------------- static universe
None == "None"

MediaTypes == {"track", "album"}

MediaTypeSets == (SUBSET MediaTypes) \ {{}}

\* provider configs the config controller can hold, in config order
ProviderConfs ==
  << [instance_id |-> "p3", domain |-> "db"],
     [instance_id |-> "p1", domain |-> "da"],
     [instance_id |-> "p2", domain |-> "da"] >>

Range(s) == { s[i] : i \in DOMAIN s }

AllConfs == Range(ProviderConfs)

InstanceIds == { c.instance_id : c \in AllConfs }

ConfDomain(inst) == (CHOOSE c \in AllConfs : c.instance_id = inst).domain

\* manifest.json descriptors found under PROVIDERS_PATH
ManifestFiles(multi) ==
  [ d \in {"da", "db"} |->
      IF d = "da"
      THEN [type |-> "music", multi_instance |-> multi, depends_on |-> None]
      ELSE [type |-> "metadata", multi_instance |-> FALSE, depends_on |-> "da"] ]

ProviderSelections ==
  { [all |-> TRUE, ids |-> {}], [all |-> FALSE, ids |-> {"p1"}],
    [all |-> FALSE, ids |-> {"p2"}] }

Restrict(f, S) == [ x \in S |-> f[x] ]

SetupOutcomes == {"ok", "MusicAssistantError", "Exception"}

RunningPcs == {"U_loop", "L_body", "ST_loop"}

EventTypes == {"PROVIDERS_UPDATED", "SYNC_TASKS_UPDATED", "SHUTDOWN"}

VARIABLES
  provider_configs,      \* config.get_provider_configs() at startup
  _available_providers,  \* domain -> manifest
  _providers,            \* registry: provider objects in dict insertion order
  objs,                  \* every provider object constructed so far
  in_progress_syncs,     \* list of SyncTask
  tasks,                 \* every asyncio task created through create_task
  _tracked_tasks,        \* list of task ids
  closing,               \* MusicAssistant.closing
  calls,                 \* coroutine calls (startup, load, unload, stop)
  events,                \* number of events published by signal_event, per type
  last_sync_skipped,     \* the last _start_provider_sync call took the skip branch
  bus,                   \* event bus: _subscribers, unsubscribe handles, scheduled callbacks
  fs,                    \* one sync_library run of a filesystem provider and its stores
  db,                    \* the library database seen by _setup_database and cleanup_provider
  srch                   \* search calls, the search cache and its pending writes

vars == << provider_configs, _available_providers, _providers, objs,
           in_progress_syncs, tasks, _tracked_tasks, closing, calls, events,
           last_sync_skipped, bus, fs, db, srch >>

\* ------------------------------------------------------------- helpers
RemoveAt(s, i) == [ j \in 1..(Len(s) - 1) |-> IF j < i THEN s[j] ELSE s[j + 1] ]

FirstIndex(s, x) ==
  IF \E i \in DOMAIN s : s[i] = x
  THEN CHOOSE i \in DOMAIN s : s[i] = x /\ \A j \in 1..(i - 1) : s[j] # x
  ELSE 0

\* list.remove(x): removes the first element equal to x
ListRemove(s, x) == IF FirstIndex(s, x) = 0 THEN s ELSE RemoveAt(s, FirstIndex(s, x))

\* index in the registry of the object registered under instance id `inst`, or 0
RegIndex(os, provs, inst) ==
  IF \E i \in DOMAIN provs : os[provs[i]].instance_id = inst
  THEN CHOOSE i \in DOMAIN provs : os[provs[i]].instance_id = inst
  ELSE 0

Registered(os, provs, inst) == RegIndex(os, provs, inst) # 0

\* ------------------------------------------------------ signal_event
signal_event(cl, evs, event) ==
  IF cl THEN evs ELSE [evs EXCEPT ![event] = @ + 1]

\* ------------------------------------------------------- get_provider
\* mutant: the lookup goes through every provider object constructed so far
get_provider_any_object(os, provs, provider_instance_or_domain) ==
  IF \E o \in DOMAIN os : os[o].instance_id = provider_instance_or_domain
  THEN CHOOSE o \in DOMAIN os : os[o].instance_id = provider_instance_or_domain
  ELSE 0

\* the object registered under the instance id, else the first one of that
\* domain, else 0 (ProviderUnavailableError)
get_provider(os, provs, provider_instance_or_domain) ==
  IF Registered(os, provs, provider_instance_or_domain)
  THEN provs[RegIndex(os, provs, provider_instance_or_domain)]
  ELSE IF \E i \in DOMAIN provs : os[provs[i]].domain = provider_instance_or_domain
       THEN provs[CHOOSE i \in DOMAIN provs :
                    /\ os[provs[i]].domain = provider_instance_or_domain
                    /\ \A j \in 1..(i - 1) : os[provs[j]].domain # provider_instance_or_domain]
       ELSE 0

\* ---------------------------------------------------------- create_task
\* the task of provider.sync_library(...) on provider object o; sync_spec is
\* the SyncTask captured by its on_sync_task_done callback
NewTask(o, sync_spec) ==
  [state |-> "pending", must_cancel |-> FALSE, obj |-> o, spec |-> sync_spec,
   cb_ran |-> FALSE, on_closed |-> FALSE, launch_ev |-> FALSE, done_ev |-> FALSE,
   tracked_cbs |-> 1]

\* mutant: the completion callback leaves the task in the list
task_done_callback_keeps(tracked, t, n) == tracked

\* task_done_callback of create_task, run for each of the n times the task
\* was handed to create_task: `self._tracked_tasks.remove(task)`
task_done_callback(tracked, t, n) ==
  LET after[k \in 0..n] == IF k = 0 THEN tracked ELSE ListRemove(after[k - 1], t)
  IN  after[n]

\* create_task(target) for a target that is a future: the future itself is
\* tracked and gets one more task_done_callback
create_task_future(ts, tracked, t) ==
  [tasks |-> [ts EXCEPT ![t].tracked_cbs = @ + 1], tracked |-> Append(tracked, t)]

\* ------------------------------------------------ _start_provider_sync
\* mutant: the scan compares the media-type sets for equality
already_running_same_set(syncs, provider_instance, media_types) ==
  \E i \in DOMAIN syncs :
    /\ syncs[i].provider_instance = provider_instance
    /\ syncs[i].media_types = media_types

\* the dedup scan of in_progress_syncs
already_running(syncs, provider_instance, media_types) ==
  \E i \in DOMAIN syncs :
    /\ syncs[i].provider_instance = provider_instance
    /\ \E m \in media_types : m \in syncs[i].media_types

\* S is the record [tasks, tracked, syncs, events, skipped] of the state it
\* acts on, with the trace of the start_sync call that is running: attempted,
\* the instances _start_provider_sync was called for, and scans, one entry
\* per call of metadata.start_scan holding the instances attempted before it
_start_provider_sync(S, os, provs, cl, provider_instance, media_types) ==
  IF already_running(S.syncs, provider_instance, media_types)
  THEN [S EXCEPT !.skipped = TRUE]
  ELSE LET o == get_provider(os, provs, provider_instance)
           t == Len(S.tasks) + 1
           sync_spec == [provider_domain |-> os[o].domain,
                         provider_instance |-> os[o].instance_id,
                         media_types |-> media_types,
                         task |-> t]
           evs2 == signal_event(cl, S.events, "SYNC_TASKS_UPDATED")
       IN [S EXCEPT !.tasks = Append(@, [NewTask(o, sync_spec) EXCEPT
                                           !.launch_ev = evs2 # S.events]),
                    !.tracked = Append(@, t),
                    !.syncs = Append(@, sync_spec),
                    !.events = evs2,
                    !.skipped = FALSE]

\* ------------------------------------------------------------ start_sync
\* a selection is [all |-> TRUE] for providers = None, which selects every
\* registered music provider, or [all |-> FALSE, ids |-> the instance ids]
RECURSIVE start_sync_from(_, _, _, _, _, _, _)
start_sync_from(S, os, provs, cl, i, media_types, providers) ==
  IF i > Len(provs) THEN S
  ELSE LET p == os[provs[i]]
           selected == p.type = "music"
                       /\ (providers.all \/ p.instance_id \in providers.ids)
           S2 == IF selected
                 THEN [_start_provider_sync(S, os, provs, cl, p.instance_id, media_types)
                         EXCEPT !.attempted = @ \cup {p.instance_id}]
                 ELSE S
       IN start_sync_from(S2, os, provs, cl, i + 1, media_types, providers)

\* mutant: the metadata scan is triggered only when a sync job was launched
start_sync_scan_if_launched(S, os, provs, cl, media_types, providers) ==
  LET S1 == start_sync_from(S, os, provs, cl, 1, media_types, providers)
  IN  IF Len(S1.tasks) > Len(S.tasks)
      THEN [S1 EXCEPT !.scans = Append(@, S1.attempted)]
      ELSE S1

\* the loop over self.providers, then `self.mass.metadata.start_scan()`
start_sync(S, os, provs, cl, media_types, providers) ==
  LET S1 == start_sync_from(S, os, provs, cl, 1, media_types, providers)
  IN  [S1 EXCEPT !.scans = Append(@, S1.attempted)]

CurS == [tasks |-> tasks, tracked |-> _tracked_tasks, syncs |-> in_progress_syncs,
         events |-> events, skipped |-> last_sync_skipped, attempted |-> {},
         scans |-> << >>]

\* --------------------------------------------------------------- event bus
MaxSubs == 2
MaxSignals == 2

Callbacks == {"cb1", "cb2"}

ObjectIds == {None, "x", "y"}

\* a filter argument of subscribe: absent, one value, or a tuple of values
NoFilter == [kind |-> "none", v |-> << >>]

OneValue(x) == [kind |-> "one", v |-> << x >>]

TupleOf(s) == [kind |-> "tuple", v |-> s]

EventFilterArgs ==
  { NoFilter, OneValue("SYNC_TASKS_UPDATED"), TupleOf(<< "PROVIDERS_UPDATED", "SHUTDOWN" >>) }

IdFilterArgs == { NoFilter, OneValue("x"), TupleOf(<< "x" >>) }

\* `if isinstance(f, EventType): f = (f,)`, `if isinstance(f, str): f = (f,)`
as_tuple(f) == IF f.kind = "one" THEN [kind |-> "tuple", v |-> f.v] ELSE f

\* listener = (cb_func, event_filter, id_filter)
make_listener(cb_func, event_filter, id_filter) ==
  [cb_func |-> cb_func, event_filter |-> as_tuple(event_filter),
   id_filter |-> as_tuple(id_filter)]

\* `f is None or x in f`
filter_passes(f, x) == f.kind = "none" \/ \E i \in DOMAIN f.v : f.v[i] = x

\* mutant: the id filter is not tested
listener_matches_any_id(l, event, object_id) == filter_passes(l.event_filter, event)

\* the two `continue` tests of the delivery loop
listener_matches(l, event, object_id) ==
  /\ filter_passes(l.event_filter, event)
  /\ filter_passes(l.id_filter, object_id)

RECURSIVE SeqOf(_)
SeqOf(S) == IF S = {} THEN << >>
            ELSE LET x == CHOOSE y \in S : TRUE IN << x >> \o SeqOf(S \ {x})

\* mutant: the closing flag is not tested
signal_event_callbacks_when_closing(b, cl, event, object_id) ==
  [b EXCEPT !.ready = @ \o SeqOf({ [listener |-> l, event |-> event, object_id |-> object_id] :
                                     l \in { x \in b._subscribers :
                                               listener_matches(x, event, object_id) } })]

\* signal_event, the delivery loop: one scheduled call per matching listener
signal_event_callbacks(b, cl, event, object_id) ==
  IF cl THEN b
  ELSE [b EXCEPT !.ready = @ \o SeqOf({ [listener |-> l, event |-> event, object_id |-> object_id] :
                                         l \in { x \in b._subscribers :
                                                   listener_matches(x, event, object_id) } })]

\* subscribe: the handle keeps the arguments of the call and the listener it removes
subscribe(b, cb_func, event_filter, id_filter) ==
  [b EXCEPT !._subscribers = @ \cup {make_listener(cb_func, event_filter, id_filter)},
            !.handles = Append(@, [listener |-> make_listener(cb_func, event_filter, id_filter),
                                   event_filter |-> event_filter,
                                   id_filter |-> id_filter,
                                   called |-> "no"])]

\* remove_listener: set.remove raises KeyError when the listener is not in the set
remove_listener(b, h) ==
  IF b.handles[h].listener \in b._subscribers
  THEN [b EXCEPT !._subscribers = @ \ {b.handles[h].listener}, !.handles[h].called = "yes"]
  ELSE [b EXCEPT !.handles[h].called = "KeyError"]

BusInit ==
  [_subscribers |-> {}, handles |-> << >>, ready |-> << >>, signalled |-> 0, ignored |-> FALSE]

\* ------------------------------------------------------ filesystem sync
\* sync_library of one filesystem provider instance.  `fs` holds the locals
\* of the running sync_library call (pc, prev_checksums, cur_checksums,
\* save_checksum_interval, the listing and the position in it, the deleted
\* files and those of them still to process), the cache entry "<instance_id>.checksums", and
\* the set of paths that have a stored track/playlist mapped to this
\* instance.  parsed, upserted, skipped, raised, removed, walked and saves
\* record what the call did, exc the exception that left it, cache0 and
\* mappings0 the cache entry and the mappings it started with.
\* A file name is the sequence of its parts between dots.
MaxChecksum == 2
MaxFiles == 103
MaxKnown == 2

TRACK_EXTENSIONS == {"mp3", "m4a", "mp4", "flac", "wav", "ogg", "aiff", "wma", "dsf"}

PLAYLIST_EXTENSIONS == {"m3u", "pls"}

SUPPORTED_EXTENSIONS == TRACK_EXTENSIONS \cup PLAYLIST_EXTENSIONS

\* the files the music directory can hold, in the order listdir yields them
AllFiles ==
  << << "README" >>, << "a", "mp3" >>, << "b", "flac" >>, << "c", "m3u" >>, << "n", "txt" >> >>

\* FileSystemItem.ext: name.rsplit(".", 1)[1], None when there is no dot
NoExt == "None"

ext(name) == IF Len(name) < 2 THEN NoExt ELSE name[Len(name)]

\* `"." not in item.name or not item.ext`
has_no_extension(name) == Len(name) < 2 \/ ext(name) \in {NoExt, ""}

SupportedPaths == { AllFiles[i] : i \in { j \in DOMAIN AllFiles : ext(AllFiles[j]) \in SUPPORTED_EXTENSIONS } }

Checksums == 1..MaxChecksum

\* a checksum map: a dict from paths to checksums
ChecksumMaps == UNION { [ps -> Checksums] : ps \in SUBSET SupportedPaths }

EmptyMap == [ p \in {} |-> 0 ]

\* d[k] = v
DictSet(d, k, v) == [ p \in (DOMAIN d) \cup {k} |-> IF p = k THEN v ELSE d[p] ]

\* the cache entry: cache.get returns None when there is none
NoCache == [found |-> FALSE, data |-> EmptyMap]

CacheOf(m) == [found |-> TRUE, data |-> m]

\* cache.get(cache_key); None is replaced by {}
load_prev_checksums(cache) == IF cache.found THEN cache.data ELSE EmptyMap

\* mutant: a path that is in the previous map counts as unchanged
is_unchanged_known_path(item, prev_checksums) == item.path \in DOMAIN prev_checksums

\* `item.checksum == prev_checksums.get(item.path)`
is_unchanged(item, prev_checksums) ==
  item.path \in DOMAIN prev_checksums /\ prev_checksums[item.path] = item.checksum

\* what get_track/get_playlist followed by add_db_item can do
Outcomes == {"ok", "get_raises", "add_raises", "CancelledError"}

\* mutant: no exception of an item is caught
caught_by_walk_nothing(outcome) == FALSE

\* `except Exception` around the processing of one item
caught_by_walk(outcome) == outcome \in {"get_raises", "add_raises"}

\* `if save_checksum_interval == 100`
SaveEvery == 100

\* mutant: every path of the previous map is taken as deleted
deleted_files_all_previous(prev_checksums, cur_checksums) == DOMAIN prev_checksums

\* `set(prev_checksums.keys()) - set(cur_checksums.keys())`
deleted_files(prev_checksums, cur_checksums) ==
  (DOMAIN prev_checksums) \ (DOMAIN cur_checksums)

\* controller.get_db_item_by_prov_id(file_path, provider_instance=instance_id)
get_db_item_by_prov_id(mappings, file_path) == file_path \in mappings

\* controller.remove_prov_mapping(db_item.item_id, instance_id)
remove_prov_mapping(mappings, file_path) == mappings \ {file_path}

\* tracks.add_db_item / playlists.add_db_item: the stored item carries the
\* mapping of the parsed file
add_db_item(mappings, file_path) == mappings \cup {file_path}

FsNew(cache, listing, mappings) ==
  [pc |-> "idle", cache |-> cache, listing |-> listing, mappings |-> mappings,
   prev_checksums |-> EmptyMap, cur_checksums |-> EmptyMap,
   save_checksum_interval |-> 0, i |-> 1, deleted |-> {}, todo |-> {},
   parsed |-> {}, upserted |-> {}, skipped |-> {}, raised |-> {}, removed |-> {},
   walked |-> 0, saves |-> 0, exc |-> "", cache0 |-> cache, mappings0 |-> mappings]

FsIdle == FsNew(NoCache, << >>, {})

\* lines 232-240
sync_library_begin(f) ==
  [f EXCEPT !.pc = "walk", !.prev_checksums = load_prev_checksums(f.cache),
            !.save_checksum_interval = 0, !.cur_checksums = EmptyMap, !.i = 1]

\* lines 274-280, reached when the iteration was not left by `continue`
save_checksums_every(f) ==
  IF f.save_checksum_interval = SaveEvery
  THEN [f EXCEPT !.cache = CacheOf(f.cur_checksums), !.saves = @ + 1,
                 !.save_checksum_interval = 0]
  ELSE [f EXCEPT !.save_checksum_interval = @ + 1]

\* one iteration of the walk (lines 241-280) on the item at position f.i
walk_item(f, outcome) ==
  LET item == f.listing[f.i]
      next == [f EXCEPT !.i = @ + 1, !.walked = @ + 1]
      rec  == [next EXCEPT !.cur_checksums = DictSet(@, item.path, item.checksum)]
      got  == [rec EXCEPT !.parsed = @ \cup {item.path}]
  IN  IF has_no_extension(item.name) THEN next
      ELSE IF ext(item.name) \notin SUPPORTED_EXTENSIONS THEN next
      ELSE IF is_unchanged(item, f.prev_checksums)
           THEN [rec EXCEPT !.skipped = @ \cup {item.path}]
      ELSE IF outcome = "ok"
           THEN save_checksums_every(
                  [got EXCEPT !.mappings = add_db_item(@, item.path),
                              !.upserted = @ \cup {item.path}])
      ELSE IF caught_by_walk(outcome)
           THEN save_checksums_every(
                  [(IF outcome = "get_raises" THEN rec ELSE got)
                     EXCEPT !.raised = @ \cup {item.path}])
      ELSE [(IF outcome = "get_raises" THEN rec ELSE got)
              EXCEPT !.pc = "raised", !.exc = outcome]

\* lines 282-286: the final save, then the deleted files are worked out
walk_end(f) ==
  [f EXCEPT !.cache = CacheOf(f.cur_checksums), !.saves = @ + 1,
            !.deleted = deleted_files(f.prev_checksums, f.cur_checksums),
            !.todo = deleted_files(f.prev_checksums, f.cur_checksums),
            !.pc = "deletions"]

\* one iteration of _process_deletions (lines 291-305)
process_deletion(f, file_path) ==
  LET rest == [f EXCEPT !.todo = @ \ {file_path}]
  IN  IF ext(file_path) \notin SUPPORTED_EXTENSIONS THEN rest
      ELSE IF get_db_item_by_prov_id(f.mappings, file_path)
           THEN [rest EXCEPT !.mappings = remove_prov_mapping(@, file_path),
                             !.removed = @ \cup {file_path}]
      ELSE rest

\* ------------------------------------------------------ library database
\* the compiled-in schema version; its value is set in music_assistant/constants.py,
\* the model takes a small one
SCHEMA_VERSION == 2

MaxRuns == 2

MediaTables == {"artists", "albums", "tracks", "playlists", "radios"}

KeptTables == {"settings", "track_loudness", "playlog", "provider_mappings"}

Tables == MediaTables \cup KeptTables

DigitChars == << "0", "1", "2", "3", "4", "5", "6", "7", "8", "9" >>

\* str(n) of a natural number
RECURSIVE str(_)
str(n) == IF n < 10 THEN << DigitChars[n + 1] >>
          ELSE str(n \div 10) \o << DigitChars[(n % 10) + 1] >>

IsNumber(s) == s # << >> /\ \A i \in DOMAIN s : s[i] \in Range(DigitChars)

\* int(s) of a string of digits
RECURSIVE int(_)
int(s) == IF s = << >> THEN 0
          ELSE int(SubSeq(s, 1, Len(s) - 1)) * 10 + (FirstIndex(DigitChars, s[Len(s)]) - 1)

\* the settings row with key "version": absent, or its value column
NoRow == [present |-> FALSE, value |-> << >>]

VersionRows ==
  {NoRow} \cup { [present |-> TRUE, value |-> str(n)] : n \in 0..(SCHEMA_VERSION + 1) }
          \cup { [present |-> TRUE, value |-> << "x" >>] }

\* prev_version: 0 when the row is absent or int() raises ValueError
read_prev_version(row) ==
  IF ~row.present THEN 0
  ELSE IF IsNumber(row.value) THEN int(row.value) ELSE 0

\* the two tests that guard the DROP TABLE statements
drops_tables(prev_version) ==
  /\ prev_version \notin {0, SCHEMA_VERSION}
  /\ prev_version < SCHEMA_VERSION

\* mutant: the version row is left as it was read
stored_version_after_kept(row) == row

\* insert_or_replace of the version row
stored_version_after(row) == [present |-> TRUE, value |-> str(SCHEMA_VERSION)]

\* _setup_database on store d; prev_version, dropped and before record the run
_setup_database(d) ==
  LET prev_version == read_prev_version(d.version_row)
      drop == drops_tables(prev_version)
  IN [version_row |-> stored_version_after(d.version_row),
      rows |-> [ t \in Tables |-> IF drop /\ t \in MediaTables THEN {} ELSE d.rows[t] ],
      runs |-> d.runs + 1,
      prev_version |-> prev_version,
      dropped |-> IF drop THEN MediaTables ELSE {},
      before |-> [version_row |-> d.version_row, rows |-> d.rows]]

\* a store file with version row v and table contents r, before any startup
Store(v, r) ==
  [version_row |-> v, rows |-> r, runs |-> 0, prev_version |-> 0, dropped |-> {},
   before |-> [version_row |-> v, rows |-> r]]

DbFresh == Store(NoRow, [ t \in Tables |-> {} ])

\* ---------------------------------------------------------------- search
\* search and search_provider of the music controller.  `srch` holds the
\* running search call (its arguments, one search_provider call per provider
\* of the snapshot, its result), the entries of the cache that search uses
\* and the cache writes handed to create_task that have not run yet.
\* A query is the sequence of its characters, a cache key the sequence of the
\* pieces it is concatenated from.
MaxSearches == 2

\* ProviderFeature.SEARCH
SEARCH == "search"

Queries == { << "a", "/" >>, << "'", "a" >> }

Limits == {10}

MediaTypeLists == { << "album", "track" >> }

\* what a provider's search() can return
ResultLists == { << >>, << "x" >>, << "x", "y" >> }

\* `search_query.replace("/", " ").replace("'", "")`
RECURSIVE safe_search_string(_)
safe_search_string(q) ==
  IF q = << >> THEN << >>
  ELSE IF Head(q) = "'" THEN safe_search_string(Tail(q))
  ELSE IF Head(q) = "/" THEN << " " >> \o safe_search_string(Tail(q))
  ELSE << Head(q) >> \o safe_search_string(Tail(q))

\* f"{prov.instance_id}.search.{search_query}.{limit}" + "".join(media_types)
cache_key(instance_id, search_query, limit, media_types) ==
  << instance_id, ".search." >> \o search_query \o << "." >> \o str(limit) \o media_types

\* `expiration=86400 * 7`
SearchCacheExpiration == 86400 * 7

\* x.to_dict() and media_from_dict(x) of a media item
to_dict(x) == [uri |-> x]

media_from_dict(d) == d.uri

Serialized(items) == [ i \in DOMAIN items |-> to_dict(items[i]) ]

Deserialized(data) == [ i \in DOMAIN data |-> media_from_dict(data[i]) ]

\* cache.get(cache_key): the stored data, None when there is no entry
cache_get(cache, key) ==
  IF key \in DOMAIN cache THEN [found |-> TRUE, data |-> cache[key].data]
  ELSE [found |-> FALSE, data |-> << >>]

\* `if cache := await self.mass.cache.get(cache_key)`: None and the empty
\* list are both false
cache_is_truthy(got) == got.found /\ got.data # << >>

\* cache.set(cache_key, data, expiration=...)
cache_set(cache, key, data, expiration) ==
  DictSet(cache, key, [data |-> data, expiration |-> expiration])

\* mutant: the feature test is missing
lacks_search_never(prov) == FALSE

\* `ProviderFeature.SEARCH not in prov.supported_features`
lacks_search(prov) == SEARCH \notin prov.supported_features

\* MusicController.providers: get_providers(ProviderType.MUSIC)
music_providers(os, provs) == SelectSeq(provs, LAMBDA o : os[o].type = "music")

\* a search_provider call that has not started
NewSearchProvider(inst) ==
  [inst |-> inst, pc |-> "start", prov |-> 0, key |-> << >>, result |-> << >>,
   searched |-> 0, had_entry |-> FALSE, hit |-> FALSE, wrote |-> FALSE]

RECURSIVE chain(_)
\* itertools.chain.from_iterable over the results of gather
chain(lists) == IF lists = << >> THEN << >> ELSE Head(lists) \o chain(Tail(lists))

SearchNew(cache) ==
  [phase |-> "idle", search_query |-> << >>, limit |-> 0, media_types |-> << >>,
   subs |-> << >>, result |-> << >>, cache |-> cache, writes |-> << >>, n |-> 0,
   registry |-> << >>]

SearchIdle == SearchNew(EmptyMap)

\* search, lines 122-135: one search_provider call per music provider
search_begin(s, os, provs, search_query, media_types, limit) ==
  LET ps == music_providers(os, provs) IN
  [s EXCEPT !.phase = "running", !.search_query = search_query, !.limit = limit,
            !.media_types = media_types, !.result = << >>, !.n = @ + 1,
            !.subs = [ k \in DOMAIN ps |-> NewSearchProvider(os[ps[k]].instance_id) ],
            !.registry = provs]

\* search_provider, lines 156-168, up to the await of cache.get
search_provider_enter(s, os, provs, k) ==
  LET sub == s.subs[k]
      prov == get_provider(os, provs, sub.inst)
  IN  IF prov = 0
      THEN [s EXCEPT !.subs[k].pc = "raised"]
      ELSE IF lacks_search(os[prov])
      THEN [s EXCEPT !.subs[k].pc = "done", !.subs[k].prov = prov]
      ELSE [s EXCEPT !.subs[k].pc = "cache_get", !.subs[k].prov = prov,
                     !.subs[k].key = cache_key(os[prov].instance_id,
                                               safe_search_string(s.search_query),
                                               s.limit, s.media_types)]

\* lines 168-175: cache.get returns; a hit is returned, a miss calls prov.search
search_provider_cache_return(s, k) ==
  LET sub == s.subs[k]
      got == cache_get(s.cache, sub.key)
  IN  IF cache_is_truthy(got)
      THEN [s EXCEPT !.subs[k].pc = "done", !.subs[k].hit = TRUE,
                     !.subs[k].had_entry = got.found,
                     !.subs[k].result = Deserialized(got.data)]
      ELSE [s EXCEPT !.subs[k].pc = "prov_search", !.subs[k].searched = @ + 1,
                     !.subs[k].had_entry = got.found]

\* lines 171-180: prov.search returns items; the cache write is handed to
\* create_task and the items are returned
search_provider_return(s, k, items) ==
  [s EXCEPT !.subs[k].pc = "done", !.subs[k].result = items, !.subs[k].wrote = TRUE,
            !.writes = Append(@, [key |-> s.subs[k].key, data |-> Serialized(items),
                                  expiration |-> SearchCacheExpiration])]

\* the task of a cache write runs
cache_write_run(s, w) ==
  [s EXCEPT !.cache = cache_set(@, s.writes[w].key, s.writes[w].data,
                                s.writes[w].expiration),
            !.writes = RemoveAt(@, w)]

\* lines 124-138: gather raises the first exception of a call, else search
\* returns the chained results
search_gather(s) ==
  IF \E k \in DOMAIN s.subs : s.subs[k].pc = "raised"
  THEN [s EXCEPT !.phase = "raised"]
  ELSE [s EXCEPT !.phase = "returned",
                 !.result = chain([ k \in DOMAIN s.subs |-> s.subs[k].result ])]

\* ------------------------------------------------------------------ Init
InitRest ==
  /\ _available_providers = << >>
  /\ _providers = << >>
  /\ objs = << >>
  /\ in_progress_syncs = << >>
  /\ tasks = << >>
  /\ _tracked_tasks = << >>
  /\ closing = FALSE
  /\ calls = << >>
  /\ events = [ e \in EventTypes |-> 0 ]
  /\ last_sync_skipped = FALSE

\* a server that starts with no provider configured
Init == provider_configs = << >> /\ InitRest /\ bus = BusInit /\ srch = SearchIdle /\ fs = FsIdle /\ db = DbFresh

\* a server that starts with every provider configured
InitStartup ==
  provider_configs = ProviderConfs /\ InitRest /\ bus = BusInit /\ srch = SearchIdle /\ fs = FsIdle /\ db = DbFresh

\* ------------------------------------------------------------ call frames
Idle == \A i \in DOMAIN calls : calls[i].pc \notin RunningPcs

NewCall(top) ==
  [top |-> top, pc |-> "done", result |-> "running", inst |-> None,
   enabled |-> FALSE, import_ok |-> FALSE, idx |-> 0, wait |-> 0, obj |-> 0,
   found |-> FALSE, had_sync |-> FALSE, uobj |-> 0, closed_running |-> FALSE,
   pu |-> 0, setup_err |-> None,
   pass |-> 0, ci |-> 0, attempted |-> {}, n |-> 0]

\* the call ends with `res`; its local variables are gone
Finish(rec, res) ==
  [rec EXCEPT !.pc = "done", !.result = res, !.enabled = FALSE, !.import_ok = FALSE,
              !.idx = 0, !.wait = 0, !.obj = 0, !.pass = 0, !.ci = 0, !.n = 0]

\* an exception leaving the call: nothing up the stack catches it
Terminate(rec, err) == Finish(rec, err)

ReturnFromLoad(rec) ==
  IF rec.top = "startup"
  THEN [rec EXCEPT !.pc = "ST_loop", !.ci = @ + 1]
  ELSE Finish(rec, "ok")

ReturnFromUnload(rec) ==
  IF rec.top = "unload"
  THEN Finish(rec, "ok")
  ELSE [rec EXCEPT !.pc = "L_body"]

\* the call published the PROVIDERS_UPDATED events that evs has more than events
Published(rec, evs) ==
  [rec EXCEPT !.pu = @ + (evs["PROVIDERS_UPDATED"] - events["PROVIDERS_UPDATED"])]

HasInflightSync(inst) ==
  \E i \in DOMAIN in_progress_syncs :
    /\ in_progress_syncs[i].provider_instance = inst
    /\ tasks[in_progress_syncs[i].task].state = "pending"

\* unload_provider entry: `if provider := self._providers.get(instance_id)`
EnterUnload(rec, inst) ==
  IF Registered(objs, _providers, inst)
  THEN [rec EXCEPT !.inst = inst, !.found = TRUE,
                   !.obj = _providers[RegIndex(objs, _providers, inst)],
                   !.uobj = _providers[RegIndex(objs, _providers, inst)],
                   !.had_sync = HasInflightSync(inst),
                   !.idx = 1, !.pc = "U_loop"]
  ELSE ReturnFromUnload([rec EXCEPT !.inst = inst, !.found = FALSE])

\* load_provider entry: `await self.unload_provider(conf.instance_id)`
EnterLoad(rec, inst, en, imp) ==
  EnterUnload([rec EXCEPT !.enabled = en, !.import_ok = imp, !.setup_err = None], inst)

StartupDone ==
  /\ Len(calls) >= 1
  /\ calls[1].pc = "done"
  /\ calls[1].result = "ok"

\* a new API call can be made: the server is up and not stopping
ApiEnabled == Idle /\ StartupDone /\ ~closing

\* ------------------------------------------------------ _load_providers
\* mutant: dependent providers are not deferred to the second pass
skipped_in_pass_if_registered(prov_manifest, allow_depends_on, registered) == registered

\* the two `continue` tests of the load loop
skipped_in_pass(prov_manifest, allow_depends_on, registered) ==
  \/ (prov_manifest.depends_on # None /\ ~allow_depends_on)
  \/ registered

StartupBegin ==
  /\ Len(calls) = 0
  /\ \E multi \in BOOLEAN, parsed \in {{"da"}, {"da", "db"}} :
       _available_providers' = Restrict(ManifestFiles(multi), parsed)
  /\ calls' = << [NewCall("startup") EXCEPT !.pc = "ST_loop", !.pass = 1, !.ci = 1] >>
  /\ UNCHANGED << last_sync_skipped, provider_configs, bus, fs, db, srch, _providers, objs, in_progress_syncs, tasks,
                  _tracked_tasks, closing, events >>

StartupLoop(c) ==
  /\ calls[c].pc = "ST_loop"
  /\ LET rec == calls[c] IN
       IF rec.ci > Len(provider_configs)
       THEN calls' = [calls EXCEPT ![c] =
                        IF rec.pass = 1
                        THEN [rec EXCEPT !.pass = 2, !.ci = 1]
                        ELSE Finish(rec, "ok")]
       ELSE LET conf == provider_configs[rec.ci] IN
            IF conf.domain \notin DOMAIN _available_providers
            THEN calls' = [calls EXCEPT ![c] = Terminate(rec, "KeyError")]
            ELSE IF skipped_in_pass(_available_providers[conf.domain], rec.pass = 2,
                                    Registered(objs, _providers, conf.instance_id))
                 THEN calls' = [calls EXCEPT ![c] = [rec EXCEPT !.ci = @ + 1]]
                 ELSE \E en \in BOOLEAN, imp \in BOOLEAN :
                        calls' = [calls EXCEPT ![c] =
                                    EnterLoad([rec EXCEPT !.attempted = @ \cup {conf.instance_id}],
                                              conf.instance_id, en, imp)]
  /\ UNCHANGED << last_sync_skipped, provider_configs, bus, fs, db, srch, _available_providers, _providers, objs, in_progress_syncs, tasks,
                  _tracked_tasks, closing, events >>

\* ---------------------------------------------------------- load_provider
\* calls that will still construct a provider object
PendingConstructs ==
  Cardinality({ i \in DOMAIN calls :
                  calls[i].top = "load"
                  /\ calls[i].pc \in {"U_loop", "U_await", "U_close", "L_body"} })

LoadBegin(inst, en, imp) ==
  /\ ApiEnabled
  /\ Len(calls) < MaxCalls
  /\ Len(objs) + PendingConstructs < MaxObjs
  /\ calls' = Append(calls, EnterLoad(NewCall("load"), inst, en, imp))
  /\ UNCHANGED << last_sync_skipped, provider_configs, bus, fs, db, srch, _available_providers, _providers, objs, in_progress_syncs, tasks,
                  _tracked_tasks, closing, events >>

\* mutant: the check for another instance of the domain is missing
load_provider_check_any_instance(existing, manifest_found, multi_instance) ==
  IF ~manifest_found THEN "SetupFailedError" ELSE "proceed"

\* mutant: the check for a missing manifest is missing
load_provider_check_any_manifest(existing, manifest_found, multi_instance) ==
  IF existing /\ ~multi_instance THEN "SetupFailedError" ELSE "proceed"

\* the checks of load_provider before the try block
load_provider_check(existing, manifest_found, multi_instance) ==
  IF existing /\ ~manifest_found THEN "AttributeError"
  ELSE IF existing /\ ~multi_instance THEN "SetupFailedError"
  ELSE IF ~manifest_found THEN "SetupFailedError"
  ELSE "proceed"

\* mutant: the handler is `except MusicAssistantError`
caught_by_load_own_errors(err) == err = "MusicAssistantError"

\* `except Exception` of load_provider: every Exception subclass, not the
\* BaseException asyncio.CancelledError
caught_by_load(err) ==
  err \in {"MusicAssistantError", "Exception", "ImportError", "AttributeError"}

\* _attr_supported_features of the provider classes: the music provider da
\* declares SEARCH
FeaturesOf(domain) == IF domain = "da" THEN {SEARCH} ELSE {}

\* Provider.__init__
NewProvider(inst, domain, type) ==
  [instance_id |-> inst, domain |-> domain, type |-> type, available |-> FALSE,
   last_error |-> None, closes |-> 0, setup |-> "none",
   supported_features |-> FeaturesOf(domain)]

LoadBody(c) ==
  /\ calls[c].pc = "L_body"
  /\ LET rec == calls[c]
         inst == rec.inst
         domain == ConfDomain(inst)
         manifest_found == domain \in DOMAIN _available_providers
         multi == IF manifest_found THEN _available_providers[domain].multi_instance ELSE FALSE
         type == IF manifest_found THEN _available_providers[domain].type ELSE None
         existing == \E i \in DOMAIN _providers : objs[_providers[i]].domain = domain
         chk == load_provider_check(existing, manifest_found, multi)
         o == Len(objs) + 1
     IN
       IF ~rec.enabled
       THEN /\ calls' = [calls EXCEPT ![c] = ReturnFromLoad(rec)]
            /\ UNCHANGED << _providers, objs, events >>
       ELSE IF chk # "proceed"
       THEN /\ calls' = [calls EXCEPT ![c] = Terminate(rec, chk)]
            /\ UNCHANGED << _providers, objs, events >>
       ELSE IF ~rec.import_ok
       THEN LET evs == IF caught_by_load("ImportError")
                           THEN signal_event(closing, events, "PROVIDERS_UPDATED")
                           ELSE events
            IN /\ calls' = [calls EXCEPT ![c] =
                              IF caught_by_load("ImportError")
                              THEN ReturnFromLoad(Published(rec, evs))
                              ELSE Terminate(rec, "ImportError")]
               /\ events' = evs
               /\ UNCHANGED << _providers, objs >>
       ELSE /\ Len(objs) < MaxObjs
            /\ objs' = Append(objs, NewProvider(inst, domain, type))
            /\ _providers' = IF Registered(objs, _providers, inst)
                             THEN [_providers EXCEPT ![RegIndex(objs, _providers, inst)] = o]
                             ELSE Append(_providers, o)
            /\ calls' = [calls EXCEPT ![c] = [rec EXCEPT !.pc = "L_setup", !.obj = o]]
            /\ UNCHANGED events
  /\ UNCHANGED << last_sync_skipped, provider_configs, bus, fs, db, srch, _available_providers, in_progress_syncs, tasks, _tracked_tasks, closing >>

\* mutant: the instance is marked available whatever setup() did
after_setup_always_available(p, out) ==
  [p EXCEPT !.available = TRUE, !.setup = out,
            !.last_error = IF out = "MusicAssistantError" THEN "setup failed" ELSE None]

\* what setup() returning or raising does to the provider object
after_setup(p, out) ==
  IF out = "ok"
  THEN [p EXCEPT !.available = TRUE, !.last_error = None, !.setup = out]
  ELSE IF out = "MusicAssistantError"
       THEN [p EXCEPT !.last_error = "setup failed", !.available = FALSE, !.setup = out]
       ELSE [p EXCEPT !.setup = out]

LoadSetupReturn(c) ==
  /\ Idle
  /\ calls[c].pc = "L_setup"
  /\ \E out \in SetupOutcomes :
       LET rec == [calls[c] EXCEPT !.setup_err = IF out = "ok" THEN None ELSE out]
           o == rec.obj
           objs1 == [objs EXCEPT ![o] = after_setup(@, out)]
           S1 == IF out = "ok" /\ objs[o].type = "music"
                 THEN start_sync(CurS, objs1, _providers, closing, MediaTypes,
                                 [all |-> FALSE, ids |-> {rec.inst}])
                 ELSE CurS
           caught == out = "ok" \/ caught_by_load(out)
           evs == IF caught
                  THEN signal_event(closing, S1.events, "PROVIDERS_UPDATED")
                  ELSE S1.events
       IN /\ Len(S1.tasks) <= MaxTasks
          /\ objs' = objs1
          /\ tasks' = S1.tasks
          /\ _tracked_tasks' = S1.tracked
          /\ in_progress_syncs' = S1.syncs
          /\ events' = evs
          /\ last_sync_skipped' = S1.skipped
          /\ calls' = [calls EXCEPT ![c] =
                         IF caught THEN ReturnFromLoad(Published(rec, evs))
                         ELSE Terminate(rec, out)]
  /\ UNCHANGED << provider_configs, bus, fs, db, srch, _available_providers, _providers, closing >>

\* -------------------------------------------------------- unload_provider
UnloadBegin(inst) ==
  /\ ApiEnabled
  /\ Len(calls) < MaxCalls
  /\ calls' = Append(calls, EnterUnload(NewCall("unload"), inst))
  /\ UNCHANGED << last_sync_skipped, provider_configs, bus, fs, db, srch, _available_providers, _providers, objs, in_progress_syncs, tasks,
                  _tracked_tasks, closing, events >>

\* what `await task` gives for a task that is done
await_done(rec, st) ==
  IF st = "cancelled" THEN Terminate(rec, "CancelledError")
  ELSE IF st = "failed" THEN Terminate(rec, "JobError")
  ELSE [rec EXCEPT !.pc = "U_loop", !.idx = @ + 1, !.wait = 0]

\* one iteration of `for sync_task in self.music.in_progress_syncs`, or the
\* call of provider.close() after the loop
UnloadLoop(c) ==
  /\ calls[c].pc = "U_loop"
  /\ LET rec == calls[c] IN
       IF rec.idx > Len(in_progress_syncs)
       THEN /\ objs' = [objs EXCEPT ![rec.obj].closes = @ + 1]
            /\ calls' = [calls EXCEPT ![c] =
                           [rec EXCEPT !.pc = "U_close",
                                       !.closed_running = HasInflightSync(rec.inst)]]
            /\ UNCHANGED tasks
       ELSE LET st == in_progress_syncs[rec.idx]
                t == st.task
            IN IF st.provider_instance # rec.inst
               THEN /\ calls' = [calls EXCEPT ![c] = [rec EXCEPT !.idx = @ + 1]]
                    /\ UNCHANGED << objs, tasks >>
               ELSE IF tasks[t].state = "pending"
               THEN /\ tasks' = [tasks EXCEPT ![t].must_cancel = TRUE]
                    /\ calls' = [calls EXCEPT ![c] = [rec EXCEPT !.pc = "U_await", !.wait = t]]
                    /\ UNCHANGED objs
               ELSE /\ calls' = [calls EXCEPT ![c] = await_done(rec, tasks[t].state)]
                    /\ UNCHANGED << objs, tasks >>
  /\ UNCHANGED << last_sync_skipped, provider_configs, bus, fs, db, srch, _available_providers, _providers, in_progress_syncs, _tracked_tasks,
                  closing, events >>

\* provider.close() returns or raises; then pop and signal
UnloadCloseReturn(c) ==
  /\ Idle
  /\ calls[c].pc = "U_close"
  /\ \E ok \in BOOLEAN :
       LET rec == calls[c]
           i == RegIndex(objs, _providers, rec.inst)
       IN IF ~ok
          THEN /\ calls' = [calls EXCEPT ![c] = Terminate(rec, "CloseError")]
               /\ UNCHANGED << _providers, events >>
          ELSE IF i = 0
          THEN /\ calls' = [calls EXCEPT ![c] = Terminate(rec, "KeyError")]
               /\ UNCHANGED << _providers, events >>
          ELSE /\ _providers' = RemoveAt(_providers, i)
               /\ events' = signal_event(closing, events, "PROVIDERS_UPDATED")
               /\ calls' = [calls EXCEPT ![c] =
                              ReturnFromUnload(
                                Published(rec, signal_event(closing, events,
                                                            "PROVIDERS_UPDATED")))]
  /\ UNCHANGED << last_sync_skipped, provider_configs, bus, fs, db, srch, _available_providers, objs, in_progress_syncs, tasks, _tracked_tasks,
                  closing >>

\* ---------------------------------------------------- start_sync (API)
StartSync(media_types, providers) ==
  /\ ApiEnabled
  /\ LET S1 == start_sync(CurS, objs, _providers, closing, media_types, providers)
     IN /\ Len(S1.tasks) <= MaxTasks
        /\ tasks' = S1.tasks
        /\ _tracked_tasks' = S1.tracked
        /\ in_progress_syncs' = S1.syncs
        /\ events' = S1.events
        /\ last_sync_skipped' = S1.skipped
  /\ UNCHANGED << provider_configs, bus, fs, db, srch, _available_providers, _providers, objs, closing, calls >>

\* ------------------------------------------------- the sync job, its task
\* the job runs to its end on its provider object
JobRun(t) ==
  /\ Idle
  /\ tasks[t].state = "pending"
  /\ ~tasks[t].must_cancel
  /\ \E out \in {"finished", "failed"} :
       tasks' = [tasks EXCEPT ![t].state = out,
                              ![t].on_closed = objs[tasks[t].obj].closes > 0]
  /\ UNCHANGED << last_sync_skipped, provider_configs, bus, fs, db, srch, _available_providers, _providers, objs, in_progress_syncs,
                  _tracked_tasks, closing, calls, events >>

\* CancelledError is thrown into the job, which does not catch it
JobCancel(t) ==
  /\ Idle
  /\ tasks[t].state = "pending"
  /\ tasks[t].must_cancel
  /\ tasks' = [tasks EXCEPT ![t].state = "cancelled"]
  /\ UNCHANGED << last_sync_skipped, provider_configs, bus, fs, db, srch, _available_providers, _providers, objs, in_progress_syncs,
                  _tracked_tasks, closing, calls, events >>

\* mutant: the hook removes the SyncTask and signals nothing
on_sync_task_done_silent(syncs, evs, cl, sync_spec) ==
  [syncs |-> ListRemove(syncs, sync_spec), events |-> evs]

\* mutant: the hook signals and leaves the SyncTask in the list
on_sync_task_done_keeps(syncs, evs, cl, sync_spec) ==
  [syncs |-> syncs, events |-> signal_event(cl, evs, "SYNC_TASKS_UPDATED")]

\* on_sync_task_done: [syncs, events] after the hook ran
on_sync_task_done(syncs, evs, cl, sync_spec) ==
  [syncs |-> ListRemove(syncs, sync_spec),
   events |-> signal_event(cl, evs, "SYNC_TASKS_UPDATED")]

\* the done callbacks of task t in registration order: task_done_callback,
\* on_sync_task_done, then the wakeup of every coroutine awaiting the task
RunDoneCallbacks(t) ==
  /\ Idle
  /\ tasks[t].state # "pending"
  /\ ~tasks[t].cb_ran
  /\ _tracked_tasks' = task_done_callback(_tracked_tasks, t, tasks[t].tracked_cbs)
  /\ LET D == on_sync_task_done(in_progress_syncs, events, closing, tasks[t].spec)
     IN /\ in_progress_syncs' = D.syncs
        /\ events' = D.events
        /\ tasks' = [tasks EXCEPT ![t].cb_ran = TRUE,
                                  ![t].done_ev = D.events # events,
                                  ![t].tracked_cbs = 0]
  /\ calls' = [ i \in DOMAIN calls |->
                  IF calls[i].pc = "U_await" /\ calls[i].wait = t
                  THEN await_done(calls[i], tasks[t].state)
                  ELSE calls[i] ]
  /\ UNCHANGED << last_sync_skipped, provider_configs, bus, fs, db, srch, _available_providers, _providers, objs, closing >>

\* ------------------------------------------------------------------ stop
StopBegin ==
  /\ ApiEnabled
  /\ Len(calls) < MaxCalls
  /\ events' = signal_event(closing, events, "SHUTDOWN")
  /\ bus' = signal_event_callbacks(bus, closing, "SHUTDOWN", None)
  /\ closing' = TRUE
  /\ tasks' = [ t \in DOMAIN tasks |->
                  IF t \in Range(_tracked_tasks) /\ tasks[t].state = "pending"
                  THEN [tasks[t] EXCEPT !.must_cancel = TRUE]
                  ELSE tasks[t] ]
  /\ calls' = Append(calls, [NewCall("stop") EXCEPT !.pc = "S_close", !.idx = 1,
                                                    !.n = Len(_providers)])
  /\ UNCHANGED << last_sync_skipped, provider_configs, fs, db, srch, _available_providers, _providers, objs, in_progress_syncs,
                  _tracked_tasks >>

\* `for prov in self._providers.values(): await prov.close()`
StopCloseNext(c) ==
  /\ Idle
  /\ calls[c].pc = "S_close"
  /\ LET rec == calls[c] IN
       IF Len(_providers) # rec.n
       THEN /\ calls' = [calls EXCEPT ![c] = Terminate(rec, "RuntimeError")]
            /\ UNCHANGED objs
       ELSE IF rec.idx > rec.n
       THEN /\ calls' = [calls EXCEPT ![c] = Finish(rec, "ok")]
            /\ UNCHANGED objs
       ELSE \E ok \in BOOLEAN :
              /\ objs' = [objs EXCEPT ![_providers[rec.idx]].closes = @ + 1]
              /\ calls' = [calls EXCEPT ![c] =
                             IF ok THEN [rec EXCEPT !.idx = @ + 1]
                             ELSE Terminate(rec, "CloseError")]
  /\ UNCHANGED << last_sync_skipped, provider_configs, bus, fs, db, srch, _available_providers, _providers, in_progress_syncs, tasks,
                  _tracked_tasks, closing, events >>

\* ------------------------------------------------------------------ Next
Next ==
  \/ StartupBegin
  \/ \E c \in DOMAIN calls : StartupLoop(c)
  \/ \E conf \in AllConfs, en \in BOOLEAN, imp \in BOOLEAN :
       LoadBegin(conf.instance_id, en, imp)
  \/ \E c \in DOMAIN calls : LoadBody(c)
  \/ \E c \in DOMAIN calls : LoadSetupReturn(c)
  \/ \E inst \in InstanceIds : UnloadBegin(inst)
  \/ \E c \in DOMAIN calls : UnloadLoop(c)
  \/ \E c \in DOMAIN calls : UnloadCloseReturn(c)
  \/ \E m \in MediaTypeSets, p \in ProviderSelections : StartSync(m, p)
  \/ \E t \in DOMAIN tasks : JobRun(t)
  \/ \E t \in DOMAIN tasks : JobCancel(t)
  \/ \E t \in DOMAIN tasks : RunDoneCallbacks(t)
  \/ StopBegin
  \/ \E c \in DOMAIN calls : StopCloseNext(c)

Spec == Init /\ [][Next]_vars

\* startup with every provider configured, up to the end of _load_providers
NextStartup ==
  \/ StartupBegin
  \/ \E c \in DOMAIN calls : StartupLoop(c)
  \/ \E c \in DOMAIN calls : LoadBody(c)
  \/ \E c \in DOMAIN calls : LoadSetupReturn(c)
  \/ \E t \in DOMAIN tasks : JobRun(t)
  \/ \E t \in DOMAIN tasks : RunDoneCallbacks(t)

SpecStartup == InitStartup /\ [][NextStartup]_vars

\* ------------------------------------------------- running sync tasks
\* a server that is up with two instances of the music provider da loaded
LoadedProvider(inst) ==
  after_setup(NewProvider(inst, "da", "music"), "ok")

InitSync ==
  /\ provider_configs = << >>
  /\ _available_providers = Restrict(ManifestFiles(TRUE), {"da"})
  /\ objs = << LoadedProvider("p1"), LoadedProvider("p2") >>
  /\ _providers = << 1, 2 >>
  /\ in_progress_syncs = << >>
  /\ tasks = << >>
  /\ _tracked_tasks = << >>
  /\ closing = FALSE
  /\ calls = << Finish(NewCall("startup"), "ok") >>
  /\ events = [ e \in EventTypes |-> 0 ]
  /\ last_sync_skipped = FALSE
  /\ bus = BusInit /\ srch = SearchIdle /\ fs = FsIdle /\ db = DbFresh

\* a component hands the task of a sync job to create_task once more
CreateTaskAgain(t) ==
  /\ Idle /\ StartupDone
  /\ tasks[t].tracked_cbs < MaxHandovers
  /\ LET C == create_task_future(tasks, _tracked_tasks, t)
     IN  tasks' = C.tasks /\ _tracked_tasks' = C.tracked
  /\ UNCHANGED << last_sync_skipped, provider_configs, bus, fs, db, srch, _available_providers, _providers, objs, in_progress_syncs,
                  closing, calls, events >>

\* the task_done_callbacks added to a task that was done already
RunLateCallbacks(t) ==
  /\ Idle
  /\ tasks[t].cb_ran
  /\ tasks[t].tracked_cbs > 0
  /\ _tracked_tasks' = task_done_callback(_tracked_tasks, t, tasks[t].tracked_cbs)
  /\ tasks' = [tasks EXCEPT ![t].tracked_cbs = 0]
  /\ UNCHANGED << last_sync_skipped, provider_configs, bus, fs, db, srch, _available_providers, _providers, objs, in_progress_syncs,
                  closing, calls, events >>

NextSync ==
  \/ \E m \in MediaTypeSets, p \in ProviderSelections : StartSync(m, p)
  \/ \E t \in DOMAIN tasks : JobRun(t)
  \/ \E t \in DOMAIN tasks : JobCancel(t)
  \/ \E t \in DOMAIN tasks : RunDoneCallbacks(t)
  \/ \E t \in DOMAIN tasks : CreateTaskAgain(t)
  \/ \E t \in DOMAIN tasks : RunLateCallbacks(t)
  \/ StopBegin
  \/ \E c \in DOMAIN calls : StopCloseNext(c)

\* the event loop runs the callbacks of a task that is done
SyncFairness ==
  \A t \in 1..MaxTasks : WF_vars(t \in DOMAIN tasks /\ RunDoneCallbacks(t))

SpecSync == InitSync /\ [][NextSync]_vars /\ SyncFairness

\* ------------------------------------------- reloading a loaded provider
\* a server that is up with the instance p1 of the music provider da loaded
InitReload ==
  /\ provider_configs = << >>
  /\ _available_providers = Restrict(ManifestFiles(TRUE), {"da"})
  /\ objs = << LoadedProvider("p1") >>
  /\ _providers = << 1 >>
  /\ in_progress_syncs = << >>
  /\ tasks = << >>
  /\ _tracked_tasks = << >>
  /\ closing = FALSE
  /\ calls = << Finish(NewCall("startup"), "ok") >>
  /\ events = [ e \in EventTypes |-> 0 ]
  /\ last_sync_skipped = FALSE
  /\ bus = BusInit /\ srch = SearchIdle /\ fs = FsIdle /\ db = DbFresh

\* load_provider and unload_provider calls for p1, and the sync jobs they start
NextReload ==
  \/ \E en \in BOOLEAN, imp \in BOOLEAN : LoadBegin("p1", en, imp)
  \/ \E c \in DOMAIN calls : LoadBody(c)
  \/ \E c \in DOMAIN calls : LoadSetupReturn(c)
  \/ UnloadBegin("p1")
  \/ \E c \in DOMAIN calls : UnloadLoop(c)
  \/ \E c \in DOMAIN calls : UnloadCloseReturn(c)
  \/ \E t \in DOMAIN tasks : JobRun(t)
  \/ \E t \in DOMAIN tasks : JobCancel(t)
  \/ \E t \in DOMAIN tasks : RunDoneCallbacks(t)

SpecReload == InitReload /\ [][NextReload]_vars

\* ---------------------------------------------------- event bus actions
corevars == << provider_configs, _available_providers, _providers, objs,
               in_progress_syncs, tasks, _tracked_tasks, closing, calls, events,
               last_sync_skipped >>

\* a component subscribes
Subscribe(cb_func, event_filter, id_filter) ==
  /\ Idle /\ StartupDone
  /\ Len(bus.handles) < MaxSubs
  /\ bus' = subscribe(bus, cb_func, event_filter, id_filter)
  /\ UNCHANGED << corevars, fs, db, srch >>

\* the holder of handle h calls it
Unsubscribe(h) ==
  /\ Idle /\ StartupDone
  /\ bus.handles[h].called # "KeyError"
  /\ bus' = remove_listener(bus, h)
  /\ UNCHANGED << corevars, fs, db, srch >>

\* a component calls signal_event(event, object_id)
SignalEvent(event, object_id) ==
  /\ Idle /\ StartupDone
  /\ bus.signalled < MaxSignals
  /\ events' = signal_event(closing, events, event)
  /\ bus' = [signal_event_callbacks(bus, closing, event, object_id) EXCEPT
               !.signalled = @ + 1, !.ignored = closing]
  /\ UNCHANGED << provider_configs, _available_providers, _providers, objs,
                  in_progress_syncs, tasks, _tracked_tasks, closing, calls,
                  last_sync_skipped, fs, db, srch >>

\* one iteration of the event loop runs the callbacks scheduled so far
RunCallbacks ==
  /\ Idle
  /\ bus.ready # << >>
  /\ bus' = [bus EXCEPT !.ready = << >>]
  /\ UNCHANGED << corevars, fs, db, srch >>

\* the server has started with no provider configured; nobody has subscribed
InitBus ==
  /\ provider_configs = << >>
  /\ _available_providers = Restrict(ManifestFiles(FALSE), {"da"})
  /\ _providers = << >>
  /\ objs = << >>
  /\ in_progress_syncs = << >>
  /\ tasks = << >>
  /\ _tracked_tasks = << >>
  /\ closing = FALSE
  /\ calls = << Finish(NewCall("startup"), "ok") >>
  /\ events = [ e \in EventTypes |-> 0 ]
  /\ last_sync_skipped = FALSE
  /\ bus = BusInit /\ srch = SearchIdle /\ fs = FsIdle /\ db = DbFresh

NextBus ==
  \/ \E cb_func \in Callbacks, ef \in EventFilterArgs, idf \in IdFilterArgs :
       Subscribe(cb_func, ef, idf)
  \/ \E h \in DOMAIN bus.handles : Unsubscribe(h)
  \/ \E e \in {"PROVIDERS_UPDATED", "SYNC_TASKS_UPDATED"}, oid \in ObjectIds :
       SignalEvent(e, oid)
  \/ RunCallbacks
  \/ StopBegin
  \/ \E c \in DOMAIN calls : StopCloseNext(c)

SpecBus == InitBus /\ [][NextBus]_vars

\* ------------------------------------------------- database startup
\* a startup runs _setup_database
SetupDatabase ==
  /\ db.runs < MaxRuns
  /\ db' = _setup_database(db)
  /\ UNCHANGED << corevars, bus, fs, srch >>

\* any store file: any version row, any table holding a row or not; a row of
\* provider_mappings names the media table of the item it maps
InitDb ==
  /\ provider_configs = << >> /\ InitRest /\ bus = BusInit /\ srch = SearchIdle /\ fs = FsIdle
  /\ \E v \in VersionRows, r \in [Tables \ {"provider_mappings"} -> SUBSET {"row"}],
        m \in SUBSET { [media_type |-> t, item_id |-> "row"] : t \in {"albums", "tracks"} } :
       db = Store(v, [ t \in Tables |-> IF t = "provider_mappings" THEN m ELSE r[t] ])

NextDb == SetupDatabase

SpecDb == InitDb /\ [][NextDb]_vars

\* ---------------------------------------------------- cleanup_provider
\* cleanup_provider(P) on the library store.  Here `db` holds, for the
\* provider instance P, the item ids of each media type that have a mapping
\* to P (mappings), whether the cache holds entries of P (cache), and the
\* locals of the running call: the controller whose turn it is (ctrl), the
\* items of prov_items still to handle (todo), what get_db_items_by_prov_id
\* returned at each turn (turn) and the mappings removed so far, in order
\* (log).  added counts the upserts made for P while the call runs.
MaxAdded == 1

\* the item ids of the store: item 1 may be there from the start, the
\* others are given out to items stored later (item_id is autoincrement)
StoreItems == 1..(MaxAdded + 1)

\* the tuple of controllers the loop of cleanup_provider goes through
CleanupOrder == << "radio", "playlists", "tracks", "albums", "artists" >>

\* a call of cleanup_provider(P): `await self.mass.cache.clear(provider_instance)`
CleanupBegin ==
  /\ db.pc = "idle"
  /\ db' = [db EXCEPT !.pc = "loop", !.cache = FALSE]
  /\ UNCHANGED << corevars, bus, fs, srch >>

\* the for loop takes the next controller and awaits
\* get_db_items_by_prov_id(provider_instance), or the call returns
CleanupNextCtrl ==
  /\ db.pc = "loop"
  /\ db.todo = {}
  /\ db' = IF db.ctrl = Len(CleanupOrder)
           THEN [db EXCEPT !.pc = "done"]
           ELSE LET mt == CleanupOrder[db.ctrl + 1]
                IN  [db EXCEPT !.ctrl = @ + 1, !.todo = db.mappings[mt],
                               !.turn[mt] = db.mappings[mt]]
  /\ UNCHANGED << corevars, bus, fs, srch >>

\* one iteration of `for item in prov_items`:
\* `await ctrl.remove_prov_mapping(item.item_id, provider_instance)`
CleanupRemove(item) ==
  /\ db.pc = "loop"
  /\ item \in db.todo
  /\ LET mt == CleanupOrder[db.ctrl]
     IN  db' = [db EXCEPT !.todo = @ \ {item},
                          !.mappings[mt] = remove_prov_mapping(@, item),
                          !.log = Append(@, [media_type |-> mt, item |-> item])]
  /\ UNCHANGED << corevars, bus, fs, srch >>

\* while the call is suspended, a sync job of P that is still running
\* upserts an item with P's mapping (`add/update track to db`): a new item,
\* or a stored one, which gets P's mapping (again)
StoreAdd(mt, item) ==
  /\ db.pc = "loop"
  /\ db.added < MaxAdded
  /\ db' = [db EXCEPT !.mappings[mt] = add_db_item(@, item), !.added = @ + 1]
  /\ UNCHANGED << corevars, bus, fs, srch >>

\* any store: each media type has an item mapped to P or not
InitCleanup ==
  /\ provider_configs = << >> /\ InitRest /\ bus = BusInit /\ srch = SearchIdle /\ fs = FsIdle
  /\ \E m \in [Range(CleanupOrder) -> SUBSET {1}] :
       db = [pc |-> "idle", cache |-> TRUE, mappings |-> m, ctrl |-> 0, todo |-> {},
             turn |-> [ mt \in Range(CleanupOrder) |-> {} ], log |-> << >>, added |-> 0]

NextCleanup ==
  \/ CleanupBegin
  \/ CleanupNextCtrl
  \/ \E item \in db.todo : CleanupRemove(item)
  \/ \E mt \in Range(CleanupOrder), item \in StoreItems : StoreAdd(mt, item)

SpecCleanup == InitCleanup /\ [][NextCleanup]_vars

\* ------------------------------------------------- filesystem sync actions
\* the item listdir yields for file i, with the checksums c
ItemOf(i, c) ==
  [name |-> AllFiles[i], path |-> AllFiles[i],
   checksum |-> IF AllFiles[i] \in SupportedPaths THEN c[AllFiles[i]] ELSE 1]

\* listdir("", recursive=True) over the files S
ListingOf(S, c) ==
  LET upto[i \in 0..Len(AllFiles)] ==
        IF i = 0 THEN << >>
        ELSE IF i \in S THEN Append(upto[i - 1], ItemOf(i, c)) ELSE upto[i - 1]
  IN  upto[Len(AllFiles)]

Listings ==
  { ListingOf(S, c) : S \in SUBSET DOMAIN AllFiles, c \in [SupportedPaths -> Checksums] }

\* the item is parsed: supported and changed
IsParsed(f) ==
  LET item == f.listing[f.i]
  IN  /\ ~has_no_extension(item.name)
      /\ ext(item.name) \in SUPPORTED_EXTENSIONS
      /\ ~is_unchanged(item, f.prev_checksums)

SyncLibraryBegin ==
  /\ fs.pc = "idle"
  /\ fs' = sync_library_begin(fs)
  /\ UNCHANGED << corevars, bus, db, srch >>

WalkItem(outcome) ==
  /\ fs.pc = "walk"
  /\ fs.i <= Len(fs.listing)
  /\ outcome = "ok" \/ IsParsed(fs)
  /\ fs' = walk_item(fs, outcome)
  /\ UNCHANGED << corevars, bus, db, srch >>

WalkEnd ==
  /\ fs.pc = "walk"
  /\ fs.i > Len(fs.listing)
  /\ fs' = walk_end(fs)
  /\ UNCHANGED << corevars, bus, db, srch >>

\* the loop over the set deleted_files takes its files in any order
ProcessDeletion(file_path) ==
  /\ fs.pc = "deletions"
  /\ file_path \in fs.todo
  /\ fs' = process_deletion(fs, file_path)
  /\ UNCHANGED << corevars, bus, db, srch >>

SyncLibraryReturn ==
  /\ fs.pc = "deletions"
  /\ fs.todo = {}
  /\ fs' = [fs EXCEPT !.pc = "done"]
  /\ UNCHANGED << corevars, bus, db, srch >>

\* any cache entry, any music directory, any stored mappings of the instance
InitFs ==
  /\ provider_configs = << >> /\ InitRest /\ bus = BusInit /\ srch = SearchIdle /\ db = DbFresh
  /\ fs \in { FsNew(c, l, m) : c \in {NoCache} \cup { CacheOf(d) : d \in ChecksumMaps },
                               l \in Listings, m \in SUBSET SupportedPaths }

NextFs ==
  \/ SyncLibraryBegin
  \/ \E outcome \in Outcomes : WalkItem(outcome)
  \/ WalkEnd
  \/ \E file_path \in SupportedPaths : ProcessDeletion(file_path)
  \/ SyncLibraryReturn

SpecFs == InitFs /\ [][NextFs]_vars

\* ------------------------------------------- filesystem sync, long walks
\* a music directory of n numbered track files, all with checksum 1
LongListing(n) ==
  [ i \in 1..n |-> [name |-> << i, "mp3" >>, path |-> << i, "mp3" >>, checksum |-> 1] ]

\* the cache entry left by a sync that saw the first u of these files unchanged
KnownPrefix(u) == CacheOf([ p \in { << i, "mp3" >> : i \in 1..u } |-> 1 ])

InitFsLong ==
  /\ provider_configs = << >> /\ InitRest /\ bus = BusInit /\ srch = SearchIdle /\ db = DbFresh
  /\ fs \in { FsNew(KnownPrefix(u), LongListing(n), {}) :
                u \in 0..MaxKnown, n \in (MaxFiles - 3)..MaxFiles }

\* sync_library is called again after a call that was cancelled; file k may
\* have been deleted from the music directory in between
SyncLibraryAgain(k) ==
  /\ fs.pc = "raised"
  /\ fs' = FsNew(fs.cache, SelectSeq(fs.listing, LAMBDA item : item.path[1] # k),
                 fs.mappings)
  /\ UNCHANGED << corevars, bus, db, srch >>

\* the walk; only the first files of the directory can fail to parse, and
\* the call is cancelled only after a periodic save
NextFsLong ==
  \/ SyncLibraryBegin
  \/ \E outcome \in {"ok", "get_raises"} :
       /\ outcome = "ok" \/ fs.i <= MaxKnown + 1
       /\ WalkItem(outcome)
  \/ fs.saves >= 1 /\ WalkItem("CancelledError")
  \/ WalkEnd
  \/ \E file_path \in fs.todo : ProcessDeletion(file_path)
  \/ SyncLibraryReturn
  \/ \E k \in {0, 1, MaxFiles - 1} : SyncLibraryAgain(k)

SpecFsLong == InitFsLong /\ [][NextFsLong]_vars

\* ====================================================================
\* Properties
\* ====================================================================

ConfiguredIds == { provider_configs[i].instance_id : i \in DOMAIN provider_configs }

Unloads == { c \in DOMAIN calls : calls[c].top = "unload" }

Loads == { c \in DOMAIN calls : calls[c].top = "load" }

\* ------------------------------------------------------------ searching
\* a server that is up with four providers: two instances of the music
\* provider da (which declares SEARCH), the music provider dc (which does not)
\* and the metadata provider db
SearchManifests ==
  [ d \in {"da", "db", "dc"} |->
      IF d = "db" THEN ManifestFiles(TRUE)["db"]
      ELSE [type |-> "music", multi_instance |-> d = "da", depends_on |-> None] ]

InitSearch ==
  /\ provider_configs = << >>
  /\ _available_providers = SearchManifests
  /\ objs = << LoadedProvider("p1"),
               after_setup(NewProvider("p4", "dc", "music"), "ok"),
               after_setup(NewProvider("p3", "db", "metadata"), "ok"),
               LoadedProvider("p2") >>
  /\ _providers = << 1, 2, 3, 4 >>
  /\ in_progress_syncs = << >>
  /\ tasks = << >>
  /\ _tracked_tasks = << >>
  /\ closing = FALSE
  /\ calls = << Finish(NewCall("startup"), "ok") >>
  /\ events = [ e \in EventTypes |-> 0 ]
  /\ last_sync_skipped = FALSE
  /\ bus = BusInit /\ fs = FsIdle /\ db = DbFresh
  /\ srch = SearchIdle

\* a client calls search
SearchBegin(search_query, media_types, limit) ==
  /\ Idle /\ StartupDone
  /\ srch.phase # "running"
  /\ \A k \in DOMAIN srch.subs : srch.subs[k].pc \in {"done", "raised"}
  /\ srch.n < MaxSearches
  /\ srch' = search_begin(srch, objs, _providers, search_query, media_types, limit)
  /\ UNCHANGED << corevars, bus, fs, db >>

\* a search_provider call runs up to its first await
SearchProviderEnter(k) ==
  /\ Idle
  /\ srch.subs[k].pc = "start"
  /\ srch' = search_provider_enter(srch, objs, _providers, k)
  /\ UNCHANGED << corevars, bus, fs, db >>

\* cache.get returns to a search_provider call
SearchProviderCacheReturn(k) ==
  /\ Idle
  /\ srch.subs[k].pc = "cache_get"
  /\ srch' = search_provider_cache_return(srch, k)
  /\ UNCHANGED << corevars, bus, fs, db >>

\* prov.search returns to a search_provider call
SearchProviderReturn(k, items) ==
  /\ Idle
  /\ srch.subs[k].pc = "prov_search"
  /\ srch' = search_provider_return(srch, k, items)
  /\ UNCHANGED << corevars, bus, fs, db >>

\* the task of a pending cache write runs
CacheWriteRun(w) ==
  /\ Idle
  /\ srch' = cache_write_run(srch, w)
  /\ UNCHANGED << corevars, bus, fs, db >>

\* gather is done: search raises or returns
SearchGather ==
  /\ Idle
  /\ srch.phase = "running"
  /\ \/ \E k \in DOMAIN srch.subs : srch.subs[k].pc = "raised"
     \/ \A k \in DOMAIN srch.subs : srch.subs[k].pc = "done"
  /\ srch' = search_gather(srch)
  /\ UNCHANGED << corevars, bus, fs, db >>

NextSearch ==
  \/ \E q \in Queries, m \in MediaTypeLists, l \in Limits : SearchBegin(q, m, l)
  \/ \E k \in DOMAIN srch.subs : SearchProviderEnter(k)
  \/ \E k \in DOMAIN srch.subs : SearchProviderCacheReturn(k)
  \/ \E k \in DOMAIN srch.subs, items \in ResultLists : SearchProviderReturn(k, items)
  \/ \E w \in DOMAIN srch.writes : CacheWriteRun(w)
  \/ SearchGather
  \/ Len(calls) < 2 /\ UnloadBegin("p1")
  \/ \E c \in DOMAIN calls : UnloadLoop(c)
  \/ \E c \in DOMAIN calls : UnloadCloseReturn(c)

SpecSearch == InitSearch /\ [][NextSearch]_vars

\* ------------------------------------------------------------------ C1
NoOverlap ==
  \A i, j \in DOMAIN in_progress_syncs :
    (i # j /\ in_progress_syncs[i].provider_instance = in_progress_syncs[j].provider_instance)
      => in_progress_syncs[i].media_types \cap in_progress_syncs[j].media_types = {}

Covered(inst, m) ==
  \E i \in DOMAIN in_progress_syncs :
    /\ in_progress_syncs[i].provider_instance = inst
    /\ in_progress_syncs[i].media_types \cap m # {}

DedupStep ==
  \A m \in MediaTypeSets, inst \in InstanceIds :
    (Covered(inst, m) /\ StartSync(m, [all |-> FALSE, ids |-> {inst}]))
      => UNCHANGED << in_progress_syncs, tasks, _tracked_tasks, events >>

\* C1: no two in-flight SyncTasks of one provider instance have intersecting
\* media types, and a start_sync call for instance P and types M made while an
\* in-flight SyncTask of P covers a type of M creates no task, leaves
\* in_progress_syncs unchanged and publishes no event.
C1_Dedup == [] NoOverlap /\ [][DedupStep]_vars

\* a call was skipped by the dedup rule while a sync job is in flight
C1_Witness ==
  /\ last_sync_skipped
  /\ \E i \in DOMAIN in_progress_syncs : tasks[in_progress_syncs[i].task].state = "pending"

\* ------------------------------------------------------------------ C2
\* C2: when an unload_provider call on a registered instance with an in-flight
\* SyncTask has finished, the provider was closed, it is not in the registry
\* and none of its SyncTasks is in in_progress_syncs.
C2_UnloadCompletes ==
  \A c \in Unloads :
    (calls[c].pc = "done" /\ calls[c].found /\ calls[c].had_sync)
      => /\ objs[calls[c].uobj].closes > 0
         /\ calls[c].uobj \notin Range(_providers)
         /\ \A i \in DOMAIN in_progress_syncs :
              tasks[in_progress_syncs[i].task].obj # calls[c].uobj

\* ------------------------------------------------------------------ C3
\* C3: unload_provider never calls close() while a SyncTask of the instance is
\* running, and no sync job runs on a provider after close() was called on it.
C3_NoSyncOnClosed ==
  /\ \A c \in DOMAIN calls : ~calls[c].closed_running
  /\ \A t \in DOMAIN tasks : ~tasks[t].on_closed

\* ------------------------------------------------------------------ C4
\* C4: every finished unload_provider call on a registered instance published
\* a PROVIDERS_UPDATED event, whatever its outcome.
C4_UnloadSignals ==
  \A c \in Unloads :
    (calls[c].pc = "done" /\ calls[c].found) => calls[c].pu >= 1

\* ------------------------------------------------------------------ C5
\* C5 as stated: every launched SyncTask had a SYNC_TASKS_UPDATED event at
\* launch and, once its completion hook ran, a second one, also when the job
\* was cancelled by stop().
C5_Original ==
  \A t \in DOMAIN tasks :
    tasks[t].launch_ev /\ (tasks[t].cb_ran => tasks[t].done_ev)

\* C5 amended: as long as stop() has not set the closing flag, every launched
\* SyncTask had a SYNC_TASKS_UPDATED event at launch and, once its completion
\* hook ran (job succeeded, raised or was cancelled), a second one.
C5_SyncEvents ==
  ~closing =>
    \A t \in DOMAIN tasks :
      tasks[t].launch_ev /\ (tasks[t].cb_ran => tasks[t].done_ev)

\* the completion hook of a SyncTask cancelled by unload_provider has run
C5_Witness ==
  /\ ~closing
  /\ \E t \in DOMAIN tasks :
       /\ tasks[t].state = "cancelled"
       /\ tasks[t].cb_ran
       /\ tasks[t].launch_ev
       /\ tasks[t].done_ev

\* ------------------------------------------------------------------ C6
\* C6: a registered provider whose setup() raised has available = false and
\* last_error set to the error's message.
C6_SetupFailureVisible ==
  \A i \in DOMAIN _providers :
    objs[_providers[i]].setup \in {"MusicAssistantError", "Exception"}
      => /\ ~objs[_providers[i]].available
         /\ objs[_providers[i]].last_error # None

OtherInstanceRegistered(inst) ==
  \E i \in DOMAIN _providers :
    /\ objs[_providers[i]].domain = ConfDomain(inst)
    /\ objs[_providers[i]].instance_id # inst

SingleInstanceDomain(inst) ==
  /\ ConfDomain(inst) \in DOMAIN _available_providers
  /\ ~_available_providers[ConfDomain(inst)].multi_instance

\* C8: load_provider for an enabled config whose domain has another registered
\* instance and a manifest with multi_instance = false fails with SetupFailed
\* and leaves the registry and every provider object as they were.
C8_SingleInstance ==
  [][ \A c \in DOMAIN calls :
        ( /\ calls[c].pc = "L_body"
          /\ calls[c].enabled
          /\ OtherInstanceRegistered(calls[c].inst)
          /\ SingleInstanceDomain(calls[c].inst) )
        => /\ calls'[c].pc = "done"
           /\ calls'[c].result = "SetupFailedError"
           /\ UNCHANGED << _providers, objs >> ]_vars

\* a load failed with SetupFailed next to the registered first instance
C8_Witness ==
  \E c \in Loads :
    /\ calls[c].pc = "done"
    /\ calls[c].result = "SetupFailedError"
    /\ OtherInstanceRegistered(calls[c].inst)
    /\ SingleInstanceDomain(calls[c].inst)

\* ------------------------------------------------------------------ C9
\* C9: load_provider for an enabled config whose domain has no manifest fails
\* with SetupFailed and registers nothing.
C9_ManifestMissing ==
  [][ \A c \in DOMAIN calls :
        ( /\ calls[c].pc = "L_body"
          /\ calls[c].enabled
          /\ ConfDomain(calls[c].inst) \notin DOMAIN _available_providers )
        => /\ calls'[c].pc = "done"
           /\ calls'[c].result = "SetupFailedError"
           /\ UNCHANGED << _providers, objs >> ]_vars

\* a load of a config without manifest failed with SetupFailed
C9_Witness ==
  \E c \in Loads :
    /\ calls[c].pc = "done"
    /\ calls[c].result = "SetupFailedError"
    /\ ConfDomain(calls[c].inst) \notin DOMAIN _available_providers
    /\ ~Registered(objs, _providers, calls[c].inst)

\* ------------------------------------------------------------------ C10
\* C10: when _load_providers has ended, load_provider was called for every
\* configured provider, whatever failed on the way.
C10_AllAttempted ==
  \A c \in DOMAIN calls :
    (calls[c].top = "startup" /\ calls[c].pc = "done")
      => calls[c].attempted = ConfiguredIds

\* ------------------------------------------------------------------ C11
\* C11: the step that ends a load_provider call for an enabled config, made
\* while the server is not shutting down, publishes a PROVIDERS_UPDATED event,
\* whether loading succeeded or failed.
C11_LoadSignals ==
  [][ \A c \in DOMAIN calls :
        ( /\ ~closing
          /\ calls[c].top = "load"
          /\ calls[c].enabled
          /\ calls[c].pc \in {"L_body", "L_setup"}
          /\ calls'[c].pc = "done" )
        => events'["PROVIDERS_UPDATED"] = events["PROVIDERS_UPDATED"] + 1 ]_vars

\* ------------------------------------------------------------------ C15
\* listeners of the callbacks that this step has scheduled
NewlyScheduled ==
  { bus'.ready[i].listener : i \in (Len(bus.ready) + 1)..Len(bus'.ready) }

\* a filter argument of a subscribe call is absent or contains x
Accepts(arg, x) == arg.kind = "none" \/ x \in Range(arg.v)

FilterStep(event, object_id) ==
  \A h \in DOMAIN bus.handles :
    bus.handles[h].listener \in bus._subscribers
      => ( bus.handles[h].listener \in NewlyScheduled
           <=> ( /\ Accepts(bus.handles[h].event_filter, event)
                 /\ Accepts(bus.handles[h].id_filter, object_id) ) )

\* C15: a signal_event call that publishes (closing not set) schedules the
\* callback of a subscriber if and only if the type filter it subscribed with
\* is absent or contains the event type and the id filter it subscribed with
\* is absent or contains the event's object id.
C15_FilterCorrect ==
  [][ ~closing =>
        /\ \A e \in EventTypes, oid \in ObjectIds :
             SignalEvent(e, oid) => FilterStep(e, oid)
        /\ StopBegin => FilterStep("SHUTDOWN", None) ]_vars

\* an event with object id "y" went to a subscriber without id filter while a
\* subscriber with id filter "x" got nothing, and a PROVIDERS_UPDATED event
\* was kept from a subscriber with type filter SYNC_TASKS_UPDATED
C15_Witness ==
  \/ /\ bus.ready # << >>
     /\ bus.ready[1].object_id = "y"
     /\ \E l \in bus._subscribers :
          /\ l.id_filter.kind = "tuple"
          /\ \A i \in DOMAIN bus.ready : bus.ready[i].listener # l
  \/ /\ bus.ready # << >>
     /\ bus.ready[1].event = "PROVIDERS_UPDATED"
     /\ \E l \in bus._subscribers :
          /\ l.event_filter = TupleOf(<< "SYNC_TASKS_UPDATED" >>)
          /\ \A i \in DOMAIN bus.ready : bus.ready[i].listener # l

\* ------------------------------------------------------------------ C16
ListenerAccepts(l, event, object_id) ==
  /\ (l.event_filter.kind = "none" \/ event \in Range(l.event_filter.v))
  /\ (l.id_filter.kind = "none" \/ object_id \in Range(l.id_filter.v))

\* C16: once closing is set no step schedules a callback or publishes an
\* event, and the step of stop() that sets it publishes SHUTDOWN and schedules
\* the callback of every subscriber whose filters accept it.
C16_ShutdownLast ==
  /\ [][ closing => /\ (bus'.ready = bus.ready \/ bus'.ready = << >>)
                    /\ events' = events ]_vars
  /\ [][ StopBegin =>
           /\ events'["SHUTDOWN"] = events["SHUTDOWN"] + 1
           /\ \A l \in bus._subscribers :
                ListenerAccepts(l, "SHUTDOWN", None) => l \in NewlyScheduled ]_vars

\* SHUTDOWN is scheduled for a subscriber and a later signal_event call found
\* closing set
C16_Witness ==
  /\ closing
  /\ bus.ignored
  /\ \E i \in DOMAIN bus.ready : bus.ready[i].event = "SHUTDOWN"

\* ------------------------------------------------------------------ C17
\* C17: in a signal_event call that publishes, no callback is scheduled for a
\* subscription whose handle was called (unless the same listener is subscribed
\* again), and the callback of every subscription whose handle was not called
\* and whose filters accept the event is scheduled.
C17_Unsubscribe ==
  [][ ~closing =>
        \A e \in EventTypes, oid \in ObjectIds :
          SignalEvent(e, oid) =>
            \A h \in DOMAIN bus.handles :
              /\ ( /\ bus.handles[h].called = "yes"
                   /\ \A k \in DOMAIN bus.handles :
                        bus.handles[k].called = "no"
                          => bus.handles[k].listener # bus.handles[h].listener )
                 => bus.handles[h].listener \notin NewlyScheduled
              /\ ( /\ bus.handles[h].called = "no"
                   /\ Accepts(bus.handles[h].event_filter, e)
                   /\ Accepts(bus.handles[h].id_filter, oid) )
                 => bus.handles[h].listener \in NewlyScheduled ]_vars

\* ------------------------------------------------------------------ C18
\* C18: after stop() has returned, every task created through create_task that
\* is still running has received a cancellation request.
C18_AllCancelled ==
  \A c \in DOMAIN calls :
    (calls[c].top = "stop" /\ calls[c].pc = "done" /\ calls[c].result = "ok")
      => \A t \in DOMAIN tasks : tasks[t].state = "pending" => tasks[t].must_cancel

\* ------------------------------------------------------------------ C19
StoredNumber(row) == row.present /\ IsNumber(row.value)

\* C19: a run of _setup_database that found a stored version that is nonzero
\* and differs from SCHEMA_VERSION has dropped and recreated the five media
\* tables, kept the rows of settings, track_loudness and playlog, and stored
\* SCHEMA_VERSION.
C19_Migration ==
  ( /\ db.runs >= 1
    /\ StoredNumber(db.before.version_row)
    /\ int(db.before.version_row.value) \notin {0, SCHEMA_VERSION} )
  => /\ db.dropped = MediaTables
     /\ \A t \in MediaTables : db.rows[t] = {}
     /\ \A t \in {"settings", "track_loudness", "playlog"} : db.rows[t] = db.before.rows[t]
     /\ db.version_row = [present |-> TRUE, value |-> str(SCHEMA_VERSION)]

\* ------------------------------------------------------------------ C20
\* C20: after any run of _setup_database the stored version reads as
\* SCHEMA_VERSION; a second run in a row, and a first run on a store without
\* version row, drop no table and leave the rows of every table as they were.
C20_Idempotent ==
  /\ db.runs >= 1 =>
       (StoredNumber(db.version_row) /\ int(db.version_row.value) = SCHEMA_VERSION)
  /\ (db.runs >= 2 \/ (db.runs = 1 /\ ~db.before.version_row.present)) =>
       (db.dropped = {} /\ db.rows = db.before.rows)
  /\ db.runs >= 2 => db.version_row = db.before.version_row

\* a second run in a row after a first run that migrated a store with rows
C20_Witness ==
  /\ db.runs = 2
  /\ db.before.version_row = db.version_row
  /\ db.rows["settings"] # {}
  /\ \A t \in MediaTables : db.rows[t] = {}

\* ------------------------------------------------------------------ C12
\* the map path -> checksum of the supported items of the walk
Cur ==
  LET idx == { i \in DOMAIN fs.listing : ext(fs.listing[i].name) \in SUPPORTED_EXTENSIONS }
  IN  [ p \in { fs.listing[i].path : i \in idx } |->
          fs.listing[CHOOSE i \in idx : fs.listing[i].path = p].checksum ]

Prev == IF fs.cache0.found THEN fs.cache0.data ELSE EmptyMap

Changed == { p \in DOMAIN Cur : p \notin DOMAIN Prev \/ Cur[p] # Prev[p] }

\* C12 as stated: after a sync that ran to completion exactly the new and
\* changed paths were parsed and upserted, the unchanged ones were skipped
\* and the persisted checksum map is Cur.
C12_Original ==
  fs.pc = "done" =>
    /\ fs.parsed = Changed /\ fs.upserted = Changed
    /\ fs.skipped = (DOMAIN Cur) \ Changed
    /\ fs.cache = CacheOf(Cur)

\* C12: after a sync that ran to completion exactly the new and changed paths
\* were taken for parsing, each of them was upserted unless its parse or
\* upsert raised, exactly the unchanged paths were skipped, and the persisted
\* checksum map is Cur.
C12_Resumable ==
  fs.pc = "done" =>
    /\ fs.upserted \cup fs.raised = Changed
    /\ fs.upserted \cap fs.raised = {}
    /\ fs.parsed \subseteq Changed /\ fs.upserted \subseteq fs.parsed
    /\ fs.skipped = (DOMAIN Cur) \ Changed
    /\ fs.cache = CacheOf(Cur)

\* the example of the claim: a unchanged, b changed, c new
C12_Witness ==
  /\ fs.pc = "done"
  /\ \E a \in fs.skipped : a \in DOMAIN Prev
  /\ \E b \in fs.upserted : b \in DOMAIN Prev /\ Prev[b] # Cur[b]
  /\ \E c \in fs.upserted : c \notin DOMAIN Prev
  /\ fs.cache # fs.cache0

\* ------------------------------------------------------------------ C13
WalkPaths == { fs.listing[i].path : i \in DOMAIN fs.listing }

\* C13: after a sync that ran to completion no path of the previous checksum
\* map that is absent from the walk still has a stored item mapped to this
\* instance, the mappings removed are exactly those of such paths, and every
\* path of the walk that had a mapping still has it.
C13_Deletions ==
  fs.pc = "done" =>
    /\ \A p \in (DOMAIN Prev) \ WalkPaths : p \notin fs.mappings
    /\ fs.removed = ((DOMAIN Prev) \ WalkPaths) \cap fs.mappings0
    /\ fs.removed \cap WalkPaths = {}
    /\ \A p \in WalkPaths \cap fs.mappings0 : p \in fs.mappings

C13_Witness ==
  /\ fs.pc = "done"
  /\ fs.removed # {}
  /\ \E p \in WalkPaths \cap DOMAIN Prev : p \in fs.mappings0 /\ p \in fs.skipped

\* ------------------------------------------------------------------ C14
\* C14: an exception raised by the parse or the upsert of an item never leaves
\* sync_library, and a sync in which an item raised and that was not
\* cancelled goes on: once done it has walked the whole listing, persisted
\* the final checksum map and gone through every deleted file.
C14_FailuresCaught ==
  /\ fs.pc = "raised" => fs.exc = "CancelledError"
  /\ fs.raised # {} => fs.pc \in {"walk", "deletions", "done", "raised"}
  /\ (fs.pc = "done" /\ fs.raised # {}) =>
       /\ fs.walked = Len(fs.listing)
       /\ fs.cache = CacheOf(Cur)
       /\ fs.deleted = (DOMAIN Prev) \ (DOMAIN Cur)
       /\ fs.todo = {}

\* an item raised, a later item was upserted, and a deleted file was processed
C14_Witness ==
  /\ fs.pc = "done"
  /\ \E i, j \in DOMAIN fs.listing :
       i < j /\ fs.listing[i].path \in fs.raised /\ fs.listing[j].path \in fs.upserted
  /\ fs.deleted # {}

\* ------------------------------------------------------------------ C23
LookupKeys == InstanceIds \cup {"da", "db", "zz"}

RegisteredObjs == Range(_providers)

\* C23: get_provider(x) gives the registered instance whose instance_id is x,
\* otherwise a registered instance whose domain is x, and raises
\* ProviderUnavailableError (0) when there is neither; what it gives is always
\* in the registry.
C23_GetProvider ==
  \A x \in LookupKeys :
    LET r == get_provider(objs, _providers, x)
        byId == { o \in RegisteredObjs : objs[o].instance_id = x }
        byDomain == { o \in RegisteredObjs : objs[o].domain = x }
    IN  /\ byId # {} => r \in byId
        /\ (byId = {} /\ byDomain # {}) => r \in byDomain
        /\ (byId = {} /\ byDomain = {}) => r = 0
        /\ r # 0 => r \in RegisteredObjs

\* a replaced instance is still around as an object: its id and its domain
\* give the registered instance, and a domain without instance gives the error
C23_Witness ==
  \E o \in DOMAIN objs :
    /\ o \notin RegisteredObjs
    /\ get_provider(objs, _providers, objs[o].instance_id) \in RegisteredObjs
    /\ get_provider(objs, _providers, objs[o].domain) \in RegisteredObjs
    /\ get_provider(objs, _providers, "db") = 0

\* ------------------------------------------------------------------ C24
InCancelLoop(rec) == rec.pc \in {"U_loop", "U_await"}

\* SyncTasks of instance inst whose job is still running and was not cancelled
Uncancelled(syncs, ts, inst) ==
  { i \in DOMAIN syncs :
      /\ syncs[i].provider_instance = inst
      /\ ts[syncs[i].task].state = "pending"
      /\ ~ts[syncs[i].task].must_cancel }

\* C24: when unload_provider(P) leaves its loop over in_progress_syncs, every
\* SyncTask of P that is in flight has been cancelled; and outside stop() a
\* task is cancelled only by an unload of the instance it belongs to.
C24_CancelsAll ==
  /\ [][ \A c \in DOMAIN calls :
           (InCancelLoop(calls[c]) /\ ~InCancelLoop(calls'[c]))
             => Uncancelled(in_progress_syncs', tasks', calls[c].inst) = {} ]_vars
  /\ [][ \A t \in DOMAIN tasks :
           (~tasks[t].must_cancel /\ tasks'[t].must_cancel /\ ~closing')
             => \E c \in DOMAIN calls :
                  /\ calls[c].pc = "U_loop"
                  /\ calls[c].inst = tasks[t].spec.provider_instance ]_vars

\* ------------------------------------------------------------------ C28
\* C28: a provider object whose setup() has not returned has available = false
\* and last_error = None; available is true only on an object whose setup()
\* returned without error; and available = true implies last_error = None.
C28_Availability ==
  \A o \in DOMAIN objs :
    /\ objs[o].setup = "none" => (~objs[o].available /\ objs[o].last_error = None)
    /\ objs[o].available => (objs[o].setup = "ok" /\ objs[o].last_error = None)

\* one instance is available, the setup of another one failed with a message
C28_Witness ==
  /\ \E o \in DOMAIN objs : objs[o].available
  /\ \E o \in DOMAIN objs : ~objs[o].available /\ objs[o].last_error # None

\* ------------------------------------------------------------------ C27
\* the payload of a PROVIDERS_UPDATED event: get_providers() when it is signalled
PayloadHas(os, provs, inst) == Registered(os, provs, inst)

PayloadInstance(os, provs, inst) == os[provs[RegIndex(os, provs, inst)]]

PublishesPU == events'["PROVIDERS_UPDATED"] > events["PROVIDERS_UPDATED"]

\* C27: the payload of the PROVIDERS_UPDATED event published at the end of an
\* unload does not contain the unloaded instance; the one published after
\* setup() returned contains the instance with available = true and
\* last_error = None; the one published after setup() raised contains the
\* instance with available = false.
C27_AfterTransition ==
  [][ \A c \in DOMAIN calls :
        /\ (calls[c].pc = "U_close" /\ calls'[c].pc # "U_close" /\ PublishesPU)
             => ~PayloadHas(objs', _providers', calls[c].inst)
        /\ (calls[c].pc = "L_setup" /\ calls'[c].pc # "L_setup" /\ PublishesPU)
             => /\ PayloadHas(objs', _providers', calls[c].inst)
                /\ LET p == PayloadInstance(objs', _providers', calls[c].inst)
                   IN  IF calls'[c].setup_err = None
                       THEN p.available /\ p.last_error = None
                       ELSE ~p.available ]_vars

\* ------------------------------------------------------------------ C26
\* configured instances whose manifest declares no depends_on
ConfiguredIndependent ==
  { provider_configs[i].instance_id : i \in
      { j \in DOMAIN provider_configs :
          /\ provider_configs[j].domain \in DOMAIN _available_providers
          /\ _available_providers[provider_configs[j].domain].depends_on = None } }

\* _load_providers calls load_provider in this step
StartsLoad(c) ==
  /\ calls[c].top = "startup"
  /\ calls[c].pc = "ST_loop"
  /\ calls'[c].pc \in {"L_body", "U_loop"}

\* C26: when _load_providers starts the load of a provider whose manifest
\* declares depends_on, a load has been attempted for every configured provider
\* without depends_on; and the second pass starts no load for an instance that
\* is registered.
C26_LoadOrder ==
  [][ \A c \in DOMAIN calls :
        StartsLoad(c) =>
          LET inst == calls'[c].inst IN
            /\ _available_providers[ConfDomain(inst)].depends_on # None
                 => ConfiguredIndependent \subseteq calls[c].attempted
            /\ calls[c].pass = 2 => ~Registered(objs, _providers, inst) ]_vars

\* startup has ended: the dependent provider p3 was loaded after p1, and p1,
\* registered in the first pass, was constructed once
C26_Witness ==
  /\ StartupDone
  /\ calls[1].attempted = ConfiguredIds
  /\ Registered(objs, _providers, "p1") /\ Registered(objs, _providers, "p3")
  /\ Cardinality({ o \in DOMAIN objs : objs[o].instance_id = "p1" }) = 1

\* ------------------------------------------------------------------ C25
Listed(t) == \E i \in DOMAIN in_progress_syncs : in_progress_syncs[i].task = t

\* the SyncTask of every launched job whose hook has not run is in the list
\* exactly once (so the remove of the hook finds it), and none whose hook has
\* run is in it
SyncListExact ==
  /\ \A t \in DOMAIN tasks :
       IF tasks[t].cb_ran THEN ~Listed(t)
       ELSE Cardinality({ i \in DOMAIN in_progress_syncs :
                            in_progress_syncs[i] = tasks[t].spec }) = 1
  /\ \A i \in DOMAIN in_progress_syncs : in_progress_syncs[i].task \in DOMAIN tasks

\* C25: in_progress_syncs holds a SyncTask from its launch until its completion
\* hook runs: the hook always finds the SyncTask it removes, no SyncTask whose
\* hook has run is in the list, and every SyncTask whose job has ended
\* (finished, failed or cancelled) is eventually removed.
C25_SyncTaskLifetime ==
  /\ []SyncListExact
  /\ \A t \in 1..MaxTasks :
       (t \in DOMAIN tasks /\ tasks[t].state # "pending")
         ~> (t \in DOMAIN tasks /\ tasks[t].cb_ran /\ ~Listed(t))

\* a job was cancelled, another one ended by itself, both were removed
C25_Witness ==
  /\ in_progress_syncs = << >>
  /\ \E t \in DOMAIN tasks : tasks[t].state = "cancelled" /\ tasks[t].cb_ran
  /\ \E t \in DOMAIN tasks : tasks[t].state \in {"finished", "failed"} /\ tasks[t].cb_ran

\* ------------------------------------------------------------------ C30
Occurrences(s, x) == Cardinality({ i \in DOMAIN s : s[i] = x })

\* C30 as stated: in every state _tracked_tasks holds exactly the tasks that
\* have not completed.
C30_Original ==
  Range(_tracked_tasks) = { t \in DOMAIN tasks : tasks[t].state = "pending" }

\* C30: in every state _tracked_tasks holds each task once for every time it
\* was handed to create_task and the completion callback of that call has not
\* run yet: a task that has not completed is in it, a completed task stays in
\* it until the event loop has run its callbacks, and every callback finds the
\* entry it removes, also for a future handed to create_task more than once.
C30_Tracking ==
  /\ \A t \in DOMAIN tasks :
       /\ Occurrences(_tracked_tasks, t) = tasks[t].tracked_cbs
       /\ tasks[t].state = "pending" => tasks[t].tracked_cbs >= 1
       /\ (tasks[t].cb_ran /\ tasks[t].tracked_cbs = 0) => t \notin Range(_tracked_tasks)
  /\ Range(_tracked_tasks) \subseteq DOMAIN tasks

\* a future that was handed to create_task twice has completed, another task
\* has completed and its callbacks have removed it
C30_Witness ==
  /\ \E t \in DOMAIN tasks :
       /\ Occurrences(_tracked_tasks, t) = 2
       /\ tasks[t].state # "pending"
  /\ \E t \in DOMAIN tasks : tasks[t].cb_ran /\ t \notin Range(_tracked_tasks)

\* ------------------------------------------------------------------ C29
\* items of the walk that were processed: parsed and upserted, or raised
Processed == Cardinality(fs.upserted \cup fs.raised)

\* C29: during the walk the checksum map has been written to the cache once
\* for every 100 items processed so far, and every such write holds the
\* checksum of every supported path walked so far.
C29_PeriodicSave ==
  /\ [](fs.pc = "walk" => fs.saves = Processed \div SaveEvery)
  /\ [][ (fs.pc = "walk" /\ fs'.pc = "walk" /\ fs'.saves > fs.saves)
           => fs'.cache = CacheOf(fs'.cur_checksums) ]_vars


\* ------------------------------------------------------------------ C21
\* the providers that were registered when the running search was called and
\* declare SEARCH, in registry order
DeclaringSearch ==
  SelectSeq(srch.registry, LAMBDA o : SEARCH \in objs[o].supported_features)

CallsFor(o) == { k \in DOMAIN srch.subs : srch.subs[k].inst = objs[o].instance_id }

ResultFor(o) == srch.subs[CHOOSE k \in CallsFor(o) : TRUE].result

\* search() of a provider is only ever called when the provider declares SEARCH
SearchedOnlyDeclaring ==
  \A k \in DOMAIN srch.subs :
    srch.subs[k].searched > 0 =>
      SEARCH \in objs[srch.subs[k].prov].supported_features

AnsweredCalls ==
  { k \in DOMAIN srch.subs : srch.subs[k].pc \in {"prov_search", "done"}
                               /\ srch.subs[k].key # << >> }

WriteFor(k) ==
  [key |-> srch.subs[k].key, data |-> Serialized(srch.subs[k].result),
   expiration |-> 7 * 24 * 60 * 60]

\* C22: a search_provider call that found an entry under its key returned
\* the cached items without calling the provider's search(); one that found
\* none called search() exactly once and, once it has returned, its serialized
\* result is either waiting to be written or stored under the same key with a
\* 7-day expiration
C22_CacheProtocol ==
  \A k \in AnsweredCalls :
    IF srch.subs[k].had_entry
    THEN srch.subs[k].hit /\ srch.subs[k].searched = 0
    ELSE /\ srch.subs[k].searched = 1
         /\ srch.subs[k].pc = "done" =>
              \/ \E w \in DOMAIN srch.writes : srch.writes[w] = WriteFor(k)
              \/ /\ srch.subs[k].key \in DOMAIN srch.cache
                 /\ srch.cache[srch.subs[k].key].expiration = WriteFor(k).expiration


\* ------------------------------------------------------------------ C40
\* every row of provider_mappings maps an item that is in its media table
NoDanglingMapping(rows) ==
  \A m \in rows["provider_mappings"] : m.item_id \in rows[m.media_type]

\* C40: after a run of _setup_database that dropped and recreated the media
\* tables of a store without dangling mappings, no row of provider_mappings
\* maps an item that is missing from the recreated media tables
C40_NoDanglingAfterMigration ==
  (db.runs >= 1 /\ db.dropped = MediaTables /\ NoDanglingMapping(db.before.rows))
    => NoDanglingMapping(db.rows)


\* ------------------------------------------------------------------ C35
\* C35: the persisted checksum map never holds the current checksum of a
\* supported item whose parse or upsert raised in this sync_library call
C35_FailedNotRecorded ==
  \A p \in fs.raised :
    ~(fs.cache.found /\ p \in DOMAIN fs.cache.data /\ fs.cache.data[p] = Cur[p])


\* ------------------------------------------------------------------ C34
\* C34: when a sync_library call has run to completion, also after calls
\* that were cancelled after a periodic checksum save, every path that has a
\* stored mapping of the instance is a path of the last walk
C34_DeletionsSurviveInterruption ==
  fs.pc = "done" =>
    \A p \in fs.mappings : \E i \in DOMAIN fs.listing : fs.listing[i].path = p


\* ------------------------------------------------------------------ C38
\* C38: when the event loop runs the scheduled callbacks, none of them
\* belongs to a listener that has been removed by its unsubscribe handle
\* since the event was published
C38_NoCallbackAfterUnsubscribe ==
  [][ (bus.ready # << >> /\ bus'.ready = << >>)
        => \A i \in DOMAIN bus.ready : bus.ready[i].listener \in bus._subscribers ]_vars


\* ------------------------------------------------------------------ C37
\* C37: in every state the registry holds at most one instance of any domain
\* whose manifest has multi_instance = false
C37_OneInstancePerDomain ==
  \A d \in DOMAIN _available_providers :
    ~_available_providers[d].multi_instance =>
      Cardinality({ i \in DOMAIN _providers : objs[_providers[i]].domain = d }) <= 1

\* a load of a second instance of a single-instance domain was refused while
\* the load of the first instance is suspended in setup()
C37_Witness ==
  \E c1 \in Loads, c2 \in Loads :
    /\ calls[c1].pc = "L_setup"
    /\ calls[c2].pc = "done" /\ calls[c2].result = "SetupFailedError"
    /\ calls[c1].inst # calls[c2].inst
    /\ ConfDomain(calls[c1].inst) = ConfDomain(calls[c2].inst)
    /\ SingleInstanceDomain(calls[c1].inst)
    /\ Registered(objs, _providers, calls[c1].inst)


\* ------------------------------------------------------------------ C36
\* C36: while the server is not stopping, no provider object has had close()
\* called on it more than once by the unload_provider and load_provider calls,
\* and no such call has failed at the removal from the registry
C36_CloseOnceRemoveOnce ==
  ~closing =>
    /\ \A o \in DOMAIN objs : objs[o].closes <= 1
    /\ \A c \in DOMAIN calls : calls[c].result # "KeyError"


\* ------------------------------------------------------------------ C33
\* C33: every SyncTask that a step adds to in_progress_syncs is of a provider
\* object that is available when the step is done
C33_SyncOnlyAvailable ==
  [][ \A i \in DOMAIN in_progress_syncs' :
        in_progress_syncs'[i].task > Len(tasks)
          => objs'[tasks'[in_progress_syncs'[i].task].obj].available ]_vars


\* ------------------------------------------------------------------ C32
\* the registered music providers that a selection selects
SelectedMusic(p) ==
  { objs[_providers[i]].instance_id : i \in
      { j \in DOMAIN _providers :
          /\ objs[_providers[j]].type = "music"
          /\ (p.all \/ objs[_providers[j]].instance_id \in p.ids) } }

\* the SyncTasks a step has added
Launched ==
  { i \in DOMAIN in_progress_syncs' : in_progress_syncs'[i].task > Len(tasks) }

C39_CacheRoundTrip ==
  \A k \in DOMAIN srch.subs :
    srch.subs[k].had_entry =>
      /\ srch.subs[k].pc = "done"
      /\ srch.subs[k].searched = 0
      /\ srch.subs[k].hit


\* ------------------------------------------------------------------ C31
\* the place of a media type in the order radio, playlist, track, album, artist
Rank(mt) ==
  CHOOSE r \in 1..5 : << "radio", "playlists", "tracks", "albums", "artists" >>[r] = mt

Removed(mt) == { db.log[i].item : i \in { j \in DOMAIN db.log : db.log[j].media_type = mt } }

\* C31: cleanup_provider(P) has cleared P's cache entries before it removes a
\* mapping; it removes P's mappings in the order radio, playlist, track,
\* album, artist, so that an album mapping is removed only when every track
\* that was mapped to P at the tracks' turn has been handled, and an artist
\* mapping only after every such album; when it has completed, no item that was
\* mapped to P at the turn of its media type is still mapped to P
C31_CleanupOrder ==
  /\ db.log # << >> => ~db.cache
  /\ \A i \in DOMAIN db.log : \A j \in DOMAIN db.log :
       i < j => Rank(db.log[i].media_type) <= Rank(db.log[j].media_type)
  /\ Removed("albums") # {} => db.turn["tracks"] \subseteq Removed("tracks")
  /\ Removed("artists") # {} => db.turn["albums"] \subseteq Removed("albums")
  /\ db.pc = "done" =>
       \A mt \in DOMAIN db.mappings : db.turn[mt] \cap db.mappings[mt] = {}

====
